---- MODULE Spec2Model ----
(***************************************************************************)
(* Model of ocp-rename-interfaces: the MachineConfig builders              *)
(* (pkg/machineconfig/machineconfig.go), the topology classifier and the   *)
(* create-or-update reconciler (pkg/machineconfig/cluster.go) and the      *)
(* command flow that drives them (cmd/root.go).                            *)
(***************************************************************************)
EXTENDS Integers, Sequences, FiniteSets, TLC

VARIABLES
    nodes,      \* the member list returned by Nodes().List
    topo,       \* result of IsClusterSingleNode, or NoResult
    macs,       \* builder input: MAC addresses
    names,      \* builder input: interface names
    built,      \* result of the builder, or NoResult
    text,       \* encoder input: the plain-text block
    encoded,    \* result of encodeLinkFile, or NoResult
    hwids,      \* property-builder input: vendor ID and model ID
    probed,     \* one call of parseUdevadmOutput: its input and its result
    rendered,   \* one call of MarshalMachineConfig: its input and its result
    store,      \* the cluster's MachineConfig collection: name -> object or Absent
    pc,         \* position of each invocation of ApplyMachineConfig
    mc,         \* the *MachineConfig each invocation was handed
    existing,   \* the copy each invocation's Get returned, or Nil
    result,     \* what each invocation returned: NoResult, Nil or an error
    events,     \* the external calls issued so far, in order, with their answers
    flags,      \* the command line and environment of one run of the command
    cli         \* position and local values of that run

topoVars  == <<nodes, topo>>
buildVars == <<macs, names, built, text, encoded, hwids, probed, rendered>>
applyVars == <<store, pc, mc, existing, result, events>>
cliVars == <<flags, cli>>
vars == <<nodes, topo, macs, names, built, text, encoded, hwids, probed, rendered,
          store, pc, mc, existing, result, events, flags, cli>>

\* Bounds of the model.
MaxNodes == 3
MaxLen == 3
MaxCliNodes == 2

NoResult == [none |-> TRUE]
\* Go's nil, for a pointer and for an error.
Nil == [nil |-> TRUE]

\* An error value: the format string of its message and the values it reports.
Error(msg, args) == [msg |-> msg, args |-> args]

SeqsUpTo(S, n) == UNION {[1..k -> S] : k \in 0..n}

(***************************************************************************)
(* Topology classifier                                                     *)
(***************************************************************************)
MasterLabel == "node-role.kubernetes.io/master"
ControlPlaneLabel == "node-role.kubernetes.io/control-plane"
WorkerLabel == "node-role.kubernetes.io/worker"
RoleLabels == {MasterLabel, ControlPlaneLabel, WorkerLabel}

\* A cluster member is modelled by the set of its label keys.
NodeKinds == SUBSET RoleLabels

hasLabel(node, label) == label \in node

getNodeRoles(node) ==
    [isMaster |-> hasLabel(node, MasterLabel) \/ hasLabel(node, ControlPlaneLabel),
     isWorker |-> hasLabel(node, WorkerLabel)]

ZeroCounts == [controlPlane |-> 0, workerOnly |-> 0, schedulableMasters |-> 0]

countNodeWorkerEveryTime(counts, node) ==
    LET r == getNodeRoles(node)
        c1 == IF r.isMaster
              THEN [counts EXCEPT !.controlPlane = @ + 1]
              ELSE counts
        c2 == IF r.isMaster /\ r.isWorker
              THEN [c1 EXCEPT !.schedulableMasters = @ + 1]
              ELSE c1
    IN  IF r.isWorker THEN [c2 EXCEPT !.workerOnly = @ + 1] ELSE c2

\* One iteration of the loop of countNodeRoles.
countNode(counts, node) ==
    LET r == getNodeRoles(node)
        c1 == IF r.isMaster
              THEN [counts EXCEPT !.controlPlane = @ + 1]
              ELSE counts
    IN  IF r.isMaster /\ r.isWorker
        THEN [c1 EXCEPT !.schedulableMasters = @ + 1]
        ELSE IF r.isWorker
             THEN [c1 EXCEPT !.workerOnly = @ + 1]
             ELSE c1

RECURSIVE countFrom(_, _, _)
countFrom(items, i, counts) ==
    IF i > Len(items) THEN counts
    ELSE countFrom(items, i + 1, countNode(counts, items[i]))

countNodeRoles(items) == countFrom(items, 1, ZeroCounts)

\* The summary printed for the operator: the lines buildClusterInfo writes.
buildClusterInfo(totalNodes, counts) ==
    [nodes |-> totalNodes,
     controlPlane |-> counts.controlPlane,
     workersTotal |-> counts.workerOnly + counts.schedulableMasters,
     schedulableLine |-> counts.schedulableMasters > 0,
     dedicatedLine |-> counts.workerOnly > 0]

shouldUseMasterRoleNoWorkerCheck(totalNodes, counts) ==
    totalNodes = 1 \/ counts.schedulableMasters > 0

shouldUseMasterRoleEitherCondition(totalNodes, counts) ==
    totalNodes = 1 \/ counts.schedulableMasters > 0 \/ counts.workerOnly = 0

shouldUseMasterRole(totalNodes, counts) ==
    totalNodes = 1 \/ (counts.schedulableMasters > 0 /\ counts.workerOnly = 0)

ErrNoNodes == Error("no nodes found in cluster", <<>>)
ErrListNodes == Error("failed to list nodes: %w", <<>>)
ErrClient == Error("failed to build config: %w", <<>>)

TopoFailure(e) == [useMasterRole |-> FALSE, info |-> "", err |-> e]

IsClusterSingleNodeNoEmptyCheck(env, items) ==
    IF env = "clientErr" THEN TopoFailure(ErrClient)
    ELSE IF env = "listErr" THEN TopoFailure(ErrListNodes)
    ELSE LET counts == countNodeRoles(items)
         IN  [useMasterRole |-> shouldUseMasterRole(Len(items), counts),
              info |-> buildClusterInfo(Len(items), counts),
              err |-> Nil]

\* IsClusterSingleNode, given what the client construction and the list call
\* answer: env is "clientErr", "listErr" or "ok" (then items is the list).
IsClusterSingleNode(env, items) ==
    IF env = "clientErr" THEN TopoFailure(ErrClient)
    ELSE IF env = "listErr" THEN TopoFailure(ErrListNodes)
    ELSE IF Len(items) = 0 THEN TopoFailure(ErrNoNodes)
    ELSE LET counts == countNodeRoles(items)
         IN  [useMasterRole |-> shouldUseMasterRole(Len(items), counts),
              info |-> buildClusterInfo(Len(items), counts),
              err |-> Nil]

(***************************************************************************)
(* Strings: the operations of package strings and net/url the code uses    *)
(***************************************************************************)
HasPrefix(s, prefix) ==
    Len(s) >= Len(prefix) /\ SubSeq(s, 1, Len(prefix)) = prefix

\* strings.ReplaceAll for a non-empty old: the leftmost match is replaced,
\* then the text after it is treated the same way (matches do not overlap).
RECURSIVE ReplaceAll(_, _, _)
ReplaceAll(s, old, new) ==
    LET at == {i \in 1..(Len(s) - Len(old) + 1) : SubSeq(s, i, i + Len(old) - 1) = old}
    IN  IF at = {} THEN s
        ELSE LET i == CHOOSE j \in at : \A k \in at : j <= k
             IN  SubSeq(s, 1, i - 1) \o new
                    \o ReplaceAll(SubSeq(s, i + Len(old), Len(s)), old, new)

IsSpace(c) == c \in {" ", "\t", "\n", "\r"}

\* strings.TrimSpace (ASCII white space).
TrimSpace(s) ==
    LET keep == {i \in 1..Len(s) : ~IsSpace(SubSeq(s, i, i))}
    IN  IF keep = {} THEN ""
        ELSE SubSeq(s, CHOOSE i \in keep : \A k \in keep : i <= k,
                       CHOOSE j \in keep : \A k \in keep : k <= j)

\* strings.TrimPrefix.
TrimPrefix(s, prefix) ==
    IF HasPrefix(s, prefix) THEN SubSeq(s, Len(prefix) + 1, Len(s)) ELSE s

\* strings.Split for a non-empty separator.
RECURSIVE Split(_, _)
Split(s, sep) ==
    LET at == {i \in 1..(Len(s) - Len(sep) + 1) : SubSeq(s, i, i + Len(sep) - 1) = sep}
    IN  IF at = {} THEN <<s>>
        ELSE LET i == CHOOSE j \in at : \A k \in at : j <= k
             IN  <<SubSeq(s, 1, i - 1)>> \o Split(SubSeq(s, i + Len(sep), Len(s)), sep)

\* strings.Contains.
Contains(s, sub) ==
    \E i \in 1..(Len(s) - Len(sub) + 1) : SubSeq(s, i, i + Len(sub) - 1) = sub

\* The string made of the given pieces, joined by halves.
RECURSIVE Concat(_)
Concat(parts) ==
    IF Len(parts) = 0 THEN ""
    ELSE IF Len(parts) = 1 THEN parts[1]
    ELSE LET h == Len(parts) \div 2
         IN  Concat(SubSeq(parts, 1, h)) \o Concat(SubSeq(parts, h + 1, Len(parts)))

\* strings.Join.
Join(parts, sep) ==
    IF Len(parts) = 0 THEN ""
    ELSE Concat([i \in 1..(2 * Len(parts) - 1) |->
                    IF i % 2 = 1 THEN parts[(i + 1) \div 2] ELSE sep])

LowerOf ==
    [c \in {"A", "B", "C", "D", "E", "F", "G", "H", "I", "J", "K", "L", "M",
            "N", "O", "P", "Q", "R", "S", "T", "U", "V", "W", "X", "Y", "Z"} |->
        CASE c = "A" -> "a" [] c = "B" -> "b" [] c = "C" -> "c" [] c = "D" -> "d"
          [] c = "E" -> "e" [] c = "F" -> "f" [] c = "G" -> "g" [] c = "H" -> "h"
          [] c = "I" -> "i" [] c = "J" -> "j" [] c = "K" -> "k" [] c = "L" -> "l"
          [] c = "M" -> "m" [] c = "N" -> "n" [] c = "O" -> "o" [] c = "P" -> "p"
          [] c = "Q" -> "q" [] c = "R" -> "r" [] c = "S" -> "s" [] c = "T" -> "t"
          [] c = "U" -> "u" [] c = "V" -> "v" [] c = "W" -> "w" [] c = "X" -> "x"
          [] c = "Y" -> "y" [] c = "Z" -> "z"]

\* strings.ToLower (ASCII), evaluated by halves.
RECURSIVE ToLower(_)
ToLower(s) ==
    IF s = "" THEN ""
    ELSE IF Len(s) = 1 THEN (IF s \in DOMAIN LowerOf THEN LowerOf[s] ELSE s)
    ELSE LET h == Len(s) \div 2
         IN  ToLower(SubSeq(s, 1, h)) \o ToLower(SubSeq(s, h + 1, Len(s)))

Letters ==
    {"a", "b", "c", "d", "e", "f", "g", "h", "i", "j", "k", "l", "m",
     "n", "o", "p", "q", "r", "s", "t", "u", "v", "w", "x", "y", "z",
     "A", "B", "C", "D", "E", "F", "G", "H", "I", "J", "K", "L", "M",
     "N", "O", "P", "Q", "R", "S", "T", "U", "V", "W", "X", "Y", "Z"}
Digits == {"0", "1", "2", "3", "4", "5", "6", "7", "8", "9"}

\* The bytes url.QueryEscape leaves alone (shouldEscape, mode encodeQueryComponent).
Unreserved == Letters \cup Digits \cup {"-", "_", ".", "~"}

\* %XX of the other ASCII bytes the texts of this program can hold.
PercentCode ==
    [c \in {"\n", "!", "#", "$", "%", "&", "(", ")", "*", "+", ",",
            "/", ":", ";", "<", "=", ">", "?", "@", "[", "]", "^",
            "{", "|", "}"} |->
        CASE c = "\n" -> "%0A" [] c = "!" -> "%21"
          [] c = "#" -> "%23" [] c = "$" -> "%24" [] c = "%" -> "%25"
          [] c = "&" -> "%26" [] c = "(" -> "%28"
          [] c = ")" -> "%29" [] c = "*" -> "%2A" [] c = "+" -> "%2B"
          [] c = "," -> "%2C" [] c = "/" -> "%2F" [] c = ":" -> "%3A"
          [] c = ";" -> "%3B" [] c = "<" -> "%3C" [] c = "=" -> "%3D"
          [] c = ">" -> "%3E" [] c = "?" -> "%3F" [] c = "@" -> "%40"
          [] c = "[" -> "%5B" [] c = "]" -> "%5D"
          [] c = "^" -> "%5E" [] c = "{" -> "%7B"
          [] c = "|" -> "%7C" [] c = "}" -> "%7D"]

\* url.QueryEscape maps the text byte by byte: a space becomes "+", an
\* unreserved byte stays, any other byte becomes %XX.
escapeByte(c) ==
    IF c = " " THEN "+"
    ELSE IF c \in Unreserved THEN c
    ELSE PercentCode[c]

\* The byte loop, evaluated by halves.
RECURSIVE QueryEscape(_)
QueryEscape(s) ==
    IF s = "" THEN ""
    ELSE IF Len(s) = 1 THEN escapeByte(s)
    ELSE LET h == Len(s) \div 2
         IN  QueryEscape(SubSeq(s, 1, h)) \o QueryEscape(SubSeq(s, h + 1, Len(s)))

(***************************************************************************)
(* Link-file templates, encoder and resource builders                      *)
(***************************************************************************)
DefaultFileMode == 420     \* 0o644

APIVersion == "machineconfiguration.openshift.io/v1"
Kind == "MachineConfig"
IgnitionVersion == "3.2.0"
RoleLabelKey == "machineconfiguration.openshift.io/role"
NetworkDir == "/etc/systemd/network/"

generateLinkFileWithName(macAddress, interfaceName) ==
    "[Match]\nMACAddress=" \o macAddress \o "\n\n[Link]\nName=" \o interfaceName \o "\n"

generateLinkFileWithPolicy(macAddress, namePolicy) ==
    "[Match]\nMACAddress=" \o macAddress \o "\n\n[Link]\nNamePolicy=" \o namePolicy \o "\n"

\* The prefix step of the two property templates.
ensure0xAlways(id) == "0x" \o id

ensure0x(id) == IF HasPrefix(id, "0x") THEN id ELSE "0x" \o id

generateLinkFileWithPropertyAndName(vendorID, modelID, interfaceName) ==
    "[Match]\nProperty=ID_VENDOR_ID=" \o ensure0x(vendorID)
        \o "\nProperty=ID_MODEL_ID=" \o ensure0x(modelID)
        \o "\n\n[Link]\nName=" \o interfaceName \o "\n"

generateLinkFileWithPropertyAndPolicy(vendorID, modelID, namePolicy) ==
    "[Match]\nProperty=ID_VENDOR_ID=" \o ensure0x(vendorID)
        \o "\nProperty=ID_MODEL_ID=" \o ensure0x(modelID)
        \o "\n\n[Link]\nNamePolicy=" \o namePolicy \o "\n"

encodeLinkFileKeepPlus(content) == "data:text/plain," \o QueryEscape(content)

encodeLinkFile(content) ==
    "data:text/plain," \o ReplaceAll(QueryEscape(content), "+", "%20")

\* A File value; Comment is "" where the builder does not set it.
File(path, source, comment) ==
    [Path |-> path, Mode |-> DefaultFileMode, Overwrite |-> TRUE,
     Contents |-> [Source |-> source], Comment |-> comment]

createMachineConfigWorkerLabel(name, role, files) ==
    [APIVersion |-> APIVersion,
     Kind |-> Kind,
     Metadata |-> [Name |-> name, Labels |-> [k \in {RoleLabelKey} |-> "worker"]],
     Spec |-> [Config |-> [Ignition |-> [Version |-> IgnitionVersion],
                           Storage |-> [Files |-> files]]]]

createMachineConfig(name, role, files) ==
    [APIVersion |-> APIVersion,
     Kind |-> Kind,
     Metadata |-> [Name |-> name, Labels |-> [k \in {RoleLabelKey} |-> role]],
     Spec |-> [Config |-> [Ignition |-> [Version |-> IgnitionVersion],
                           Storage |-> [Files |-> files]]]]

Built(m) == [mc |-> m, err |-> Nil]

ErrCardinality(nMacs, nNames) ==
    Error("number of MAC addresses (%d) must match number of names (%d)",
          <<nMacs, nNames>>)

NewMachineConfigWithNamesOneBased(name, role, macAddresses, namePrefix) ==
    LET interfaceName(i) == namePrefix \o ToString(i)
        files == [i \in 1..Len(macAddresses) |->
                    File(NetworkDir \o "10-" \o interfaceName(i) \o ".link",
                         encodeLinkFile(generateLinkFileWithName(macAddresses[i],
                                                                 interfaceName(i))),
                         "")]
    IN  Built(createMachineConfig(name, role, files))

NewMachineConfigWithNames(name, role, macAddresses, namePrefix) ==
    LET interfaceName(i) == namePrefix \o ToString(i - 1)
        files == [i \in 1..Len(macAddresses) |->
                    File(NetworkDir \o "10-" \o interfaceName(i) \o ".link",
                         encodeLinkFile(generateLinkFileWithName(macAddresses[i],
                                                                 interfaceName(i))),
                         "")]
    IN  Built(createMachineConfig(name, role, files))

\* The guard of NewMachineConfigWithExplicitNames.
lengthsDifferOnlyTooFew(macAddresses, ifNames) == Len(ifNames) < Len(macAddresses)

lengthsDiffer(macAddresses, ifNames) == Len(macAddresses) # Len(ifNames)

NewMachineConfigWithExplicitNamesReversed(name, role, macAddresses, ifNames) ==
    IF lengthsDiffer(macAddresses, ifNames)
    THEN [mc |-> Nil, err |-> ErrCardinality(Len(macAddresses), Len(ifNames))]
    ELSE LET n == Len(ifNames)
             files == [i \in 1..Len(macAddresses) |->
                         LET linkFile == generateLinkFileWithName(macAddresses[i],
                                                                  ifNames[n + 1 - i])
                         IN  File(NetworkDir \o "10-" \o ifNames[n + 1 - i] \o ".link",
                                  encodeLinkFile(linkFile), linkFile)]
         IN  Built(createMachineConfig(name, role, files))

NewMachineConfigWithExplicitNames(name, role, macAddresses, ifNames) ==
    IF lengthsDiffer(macAddresses, ifNames)
    THEN [mc |-> Nil, err |-> ErrCardinality(Len(macAddresses), Len(ifNames))]
    ELSE LET files == [i \in 1..Len(macAddresses) |->
                         LET linkFile == generateLinkFileWithName(macAddresses[i],
                                                                  ifNames[i])
                         IN  File(NetworkDir \o "10-" \o ifNames[i] \o ".link",
                                  encodeLinkFile(linkFile), linkFile)]
         IN  Built(createMachineConfig(name, role, files))

NewMachineConfigWithPolicy(name, role, macAddresses, namePolicy) ==
    LET files == [i \in 1..Len(macAddresses) |->
                    LET linkFile == generateLinkFileWithPolicy(macAddresses[i], namePolicy)
                        safeMac == ReplaceAll(macAddresses[i], ":", "")
                    IN  File(NetworkDir \o "10-interface-" \o safeMac \o ".link",
                             encodeLinkFile(linkFile), linkFile)]
    IN  Built(createMachineConfig(name, role, files))

NewMachineConfigWithPropertyAndName(name, role, vendorID, modelID, interfaceName) ==
    LET linkFile == generateLinkFileWithPropertyAndName(vendorID, modelID, interfaceName)
    IN  Built(createMachineConfig(name, role,
              <<File(NetworkDir \o "10-" \o interfaceName \o ".link",
                     encodeLinkFile(linkFile), linkFile)>>))

NewMachineConfigWithPropertyAndPolicy(name, role, vendorID, modelID, namePolicy) ==
    LET linkFile == generateLinkFileWithPropertyAndPolicy(vendorID, modelID, namePolicy)
        safeVendor == ReplaceAll(vendorID, "0x", "")
        safeModel == ReplaceAll(modelID, "0x", "")
        filename == "10-interface-" \o safeVendor \o "-" \o safeModel \o ".link"
    IN  Built(createMachineConfig(name, role,
              <<File(NetworkDir \o filename, encodeLinkFile(linkFile), linkFile)>>))

\* yaml.Marshal of gopkg.in/yaml.v3 for a string without line break, control
\* byte, double quote or backquote that does not read as a number, a boolean
\* or null:
\* the plain style when it can carry the string, else single quotes with
\* every quote of the string doubled.  The plain style cannot carry the empty
\* string, a leading or trailing space, an indicator as first byte, a ":"
\* before a space or at the end, or a "#" after a space.
YamlIndicators == {"#", ",", "[", "]", "{", "}", "&", "*", "!", "|", ">", "'", "%", "@"}

yamlPlainAllowed(s) ==
    /\ s # ""
    /\ ~IsSpace(SubSeq(s, 1, 1))
    /\ ~IsSpace(SubSeq(s, Len(s), Len(s)))
    /\ SubSeq(s, 1, 1) \notin YamlIndicators
    /\ ~(SubSeq(s, 1, 1) \in {"-", "?", ":"} /\ (Len(s) = 1 \/ IsSpace(SubSeq(s, 2, 2))))
    /\ ~HasPrefix(s, "---")
    /\ ~HasPrefix(s, "...")
    /\ ~Contains(s, ": ")
    /\ SubSeq(s, Len(s), Len(s)) # ":"
    /\ ~Contains(s, " #")

yamlString(s) ==
    IF yamlPlainAllowed(s) THEN s ELSE "'" \o ReplaceAll(s, "'", "''") \o "'"

\* One entry of the files sequence: the struct's fields in declaration order,
\* Comment left out (yaml:"-").
yamlFile(file) ==
    <<"                - path: " \o yamlString(file.Path),
      "                  mode: " \o ToString(file.Mode),
      "                  overwrite: " \o (IF file.Overwrite THEN "true" ELSE "false"),
      "                  contents:",
      "                    source: " \o yamlString(file.Contents.Source)>>

RECURSIVE yamlFiles(_, _)
yamlFiles(files, i) ==
    IF i > Len(files) THEN <<>> ELSE yamlFile(files[i]) \o yamlFiles(files, i + 1)

\* yaml.Marshal(mc): block style, four spaces a level, every line ended by a
\* line break.
yamlMarshal(m) ==
    LET files == m.Spec.Config.Storage.Files
        head ==
            <<"apiVersion: " \o yamlString(m.APIVersion),
              "kind: " \o yamlString(m.Kind),
              "metadata:",
              "    name: " \o yamlString(m.Metadata.Name),
              "    labels:",
              "        " \o yamlString(RoleLabelKey) \o ": "
                  \o yamlString(m.Metadata.Labels[RoleLabelKey]),
              "spec:",
              "    config:",
              "        ignition:",
              "            version: " \o yamlString(m.Spec.Config.Ignition.Version),
              "        storage:">>
        body == IF Len(files) = 0 THEN <<"            files: []">>
                ELSE <<"            files:">> \o yamlFiles(files, 1)
    IN  Join(head \o body, "\n") \o "\n"

\* The lines addLinkFileComments writes for lines[i..], fileIndex files having
\* been annotated so far.
RECURSIVE commentedFrom(_, _, _, _)
commentedFrom(lines, i, fileIndex, files) ==
    IF i > Len(lines) THEN <<>>
    ELSE LET line == lines[i]
             entering == /\ Contains(line, "- path: /etc/systemd/network/")
                         /\ fileIndex < Len(files)
             file == files[fileIndex + 1]
             commentLines == IF file.Comment # "" THEN Split(file.Comment, "\n") ELSE <<>>
             nonEmpty(commentLine) == commentLine # ""
             kept == SelectSeq(commentLines, nonEmpty)
             block == [k \in 1..Len(kept) |-> "          # " \o kept[k] \o "\n"]
         IN  <<line \o "\n">>
                \o (IF entering THEN block ELSE <<>>)
                \o commentedFrom(lines, i + 1,
                                 IF entering THEN fileIndex + 1 ELSE fileIndex, files)

addLinkFileComments(yamlContent, m) ==
    Concat(commentedFrom(Split(yamlContent, "\n"), 1, 0, m.Spec.Config.Storage.Files))

\* yaml.Marshal does not fail on this struct.
MarshalMachineConfig(m) ==
    [data |-> addLinkFileComments(yamlMarshal(m), m), err |-> Nil]

\* Inputs of the builders.
MACs == {"aa:bb:cc:dd:ee:ff", "AA:BB:CC:DD:EE:0F", "1:23:45:67:89:ab", "12:3:45:67:89:ab"}
IfNames == {"ptp0", "ptp1"}
MCNames == {"50-interface-rename", "50-ptp-interface"}
Roles == {"worker", "master"}

TopoIdle == nodes = <<>> /\ topo = NoResult

EncodeIdle == text = "" /\ encoded = NoResult

ProbeIdle == probed = NoResult

MarshalIdle == rendered = NoResult

BuildIdle ==
    /\ macs = <<>> /\ names = <<>> /\ built = NoResult /\ hwids = NoResult
    /\ EncodeIdle
    /\ ProbeIdle
    /\ MarshalIdle

Invocations == {"inv1", "inv2"}

CliIdle == flags = NoResult /\ cli = NoResult

ApplyIdle ==
    /\ store = <<>>
    /\ pc = [p \in Invocations |-> "idle"]
    /\ mc = [p \in Invocations |-> Nil]
    /\ existing = [p \in Invocations |-> Nil]
    /\ result = [p \in Invocations |-> NoResult]
    /\ events = <<>>

BuildInit ==
    /\ macs \in SeqsUpTo(MACs, MaxLen)
    /\ names \in SeqsUpTo(IfNames, MaxLen)
    /\ built = NoResult
    /\ hwids = NoResult
    /\ EncodeIdle
    /\ ProbeIdle
    /\ MarshalIdle
    /\ TopoIdle
    /\ ApplyIdle
    /\ CliIdle

\* One call of NewMachineConfigWithExplicitNames on the drawn lists.
BuildExplicitNames ==
    /\ built = NoResult
    /\ \E name \in MCNames, role \in Roles :
          built' = [fn |-> "NewMachineConfigWithExplicitNames",
                    name |-> name, role |-> role,
                    out |-> NewMachineConfigWithExplicitNames(name, role, macs, names)]
    /\ UNCHANGED <<macs, names, text, encoded, hwids, probed, rendered,
                   topoVars, applyVars, cliVars>>

BuildNext == BuildExplicitNames

SpecBuild == BuildInit /\ [][BuildNext]_vars

\* Texts handed to encodeLinkFile: every text of up to MaxText bytes over
\* TextBytes, and the link files the four templates produce.
MaxText == 3
TextBytes == {"a", "Z", "9", "[", "]", "=", "\n", " ", "+", "%", ":", "-"}
Texts ==
    {Concat(q) : q \in SeqsUpTo(TextBytes, MaxText)}
        \cup {generateLinkFileWithName(m, n) : m \in MACs, n \in IfNames}
        \cup {generateLinkFileWithPolicy(m, "slot path") : m \in MACs}
        \cup {generateLinkFileWithPropertyAndName("8086", "0x153a", n) : n \in IfNames}
        \cup {generateLinkFileWithPropertyAndPolicy("0x8086", "153a", "keep")}

EncodeInit ==
    /\ text \in Texts
    /\ encoded = NoResult
    /\ macs = <<>> /\ names = <<>> /\ built = NoResult /\ hwids = NoResult
    /\ ProbeIdle
    /\ MarshalIdle
    /\ TopoIdle
    /\ ApplyIdle
    /\ CliIdle

\* One call of encodeLinkFile on the drawn text.
Encode ==
    /\ encoded = NoResult
    /\ encoded' = [out |-> encodeLinkFile(text)]
    /\ UNCHANGED <<macs, names, built, text, hwids, probed, rendered,
                   topoVars, applyVars, cliVars>>

EncodeNext == Encode

SpecEncode == EncodeInit /\ [][EncodeNext]_vars

\* Inputs of the two property builders: IDs with and without the 0x prefix.
VendorIDs == {"8086", "0x8086", "15b3", "0x15b3", "0x80:86"}
ModelIDs == {"153a", "0x153a", "1017", "0x1017"}
NamePolicies == {"slot", "keep"}

PropertyInit ==
    /\ hwids \in [vendorID : VendorIDs, modelID : ModelIDs]
    /\ built = NoResult
    /\ macs = <<>> /\ names = <<>>
    /\ EncodeIdle
    /\ ProbeIdle
    /\ MarshalIdle
    /\ TopoIdle
    /\ ApplyIdle
    /\ CliIdle

\* One call of NewMachineConfigWithPropertyAndName on the drawn IDs.
BuildPropertyAndName ==
    /\ built = NoResult
    /\ hwids # NoResult
    /\ \E name \in MCNames, role \in Roles, interfaceName \in IfNames :
          built' = [fn |-> "NewMachineConfigWithPropertyAndName",
                    name |-> name, role |-> role, arg |-> interfaceName,
                    out |-> NewMachineConfigWithPropertyAndName(
                                name, role, hwids.vendorID, hwids.modelID, interfaceName)]
    /\ UNCHANGED <<macs, names, text, encoded, hwids, probed, rendered,
                   topoVars, applyVars, cliVars>>

\* One call of NewMachineConfigWithPropertyAndPolicy on the drawn IDs.
BuildPropertyAndPolicy ==
    /\ built = NoResult
    /\ hwids # NoResult
    /\ \E name \in MCNames, role \in Roles, namePolicy \in NamePolicies :
          built' = [fn |-> "NewMachineConfigWithPropertyAndPolicy",
                    name |-> name, role |-> role, arg |-> namePolicy,
                    out |-> NewMachineConfigWithPropertyAndPolicy(
                                name, role, hwids.vendorID, hwids.modelID, namePolicy)]
    /\ UNCHANGED <<macs, names, text, encoded, hwids, probed, rendered,
                   topoVars, applyVars, cliVars>>

PropertyNext ==
    \/ BuildPropertyAndName
    \/ BuildPropertyAndPolicy

SpecProperty == PropertyInit /\ [][PropertyNext]_vars

NamePrefixes == {"ptp", "eth"}

\* One call of NewMachineConfigWithNames on the drawn MAC list.
BuildWithNames ==
    /\ built = NoResult
    /\ \E name \in MCNames, role \in Roles, namePrefix \in NamePrefixes :
          built' = [fn |-> "NewMachineConfigWithNames",
                    name |-> name, role |-> role, arg |-> namePrefix,
                    out |-> NewMachineConfigWithNames(name, role, macs, namePrefix)]
    /\ UNCHANGED <<macs, names, text, encoded, hwids, probed, rendered,
                   topoVars, applyVars, cliVars>>

\* One call of NewMachineConfigWithPolicy on the drawn MAC list.
BuildWithPolicy ==
    /\ built = NoResult
    /\ \E name \in MCNames, role \in Roles, namePolicy \in NamePolicies :
          built' = [fn |-> "NewMachineConfigWithPolicy",
                    name |-> name, role |-> role, arg |-> namePolicy,
                    out |-> NewMachineConfigWithPolicy(name, role, macs, namePolicy)]
    /\ UNCHANGED <<macs, names, text, encoded, hwids, probed, rendered,
                   topoVars, applyVars, cliVars>>

\* The five builders, each called once on inputs of its kind.
BuildersInit == BuildInit \/ PropertyInit

BuildersNext ==
    \/ BuildWithNames
    \/ BuildExplicitNames
    \/ BuildWithPolicy
    \/ BuildPropertyAndName
    \/ BuildPropertyAndPolicy

SpecBuilders == BuildersInit /\ [][BuildersNext]_vars

\* Resources handed to MarshalMachineConfig: what the four builders that keep
\* the plain text return for up to MaxFiles MACs, interface names with and
\* without a space in them.
MaxFiles == 2
MarshalMACs == {"aa:bb:cc:dd:ee:ff", "AA:BB:CC:DD:EE:0F"}
MarshalNames == {"ptp0", "lan: 0", "wan #1"}
MarshalInputs ==
    UNION {{NewMachineConfigWithExplicitNames("50-interface-rename", "worker", ms, ns).mc :
               ms \in [1..k -> MarshalMACs], ns \in [1..k -> MarshalNames]} :
           k \in 0..MaxFiles}
        \cup {NewMachineConfigWithPolicy("50-interface-rename", "master", ms, p).mc :
                 ms \in SeqsUpTo(MarshalMACs, MaxFiles), p \in NamePolicies}
        \cup {NewMachineConfigWithPropertyAndName("50-ptp-interface", "worker", v, "0x153a", n).mc :
                 v \in {"8086", "0x15b3"}, n \in MarshalNames}
        \cup {NewMachineConfigWithPropertyAndPolicy("50-ptp-interface", "master", v, "1017", p).mc :
                 v \in {"8086", "0x15b3"}, p \in NamePolicies}

MarshalInit ==
    /\ \E m \in MarshalInputs : rendered = [mc |-> m, out |-> NoResult]
    /\ macs = <<>> /\ names = <<>> /\ built = NoResult /\ hwids = NoResult
    /\ EncodeIdle
    /\ ProbeIdle
    /\ TopoIdle
    /\ ApplyIdle
    /\ CliIdle

\* One call of MarshalMachineConfig on the drawn resource.
Marshal ==
    /\ rendered.out = NoResult
    /\ rendered' = [rendered EXCEPT !.out = MarshalMachineConfig(rendered.mc)]
    /\ UNCHANGED <<macs, names, built, text, encoded, hwids, probed,
                   topoVars, applyVars, cliVars>>

MarshalNext == Marshal

SpecMarshal == MarshalInit /\ [][MarshalNext]_vars

ListEnvs == {"clientErr", "listErr", "ok"}

TopoInit ==
    /\ nodes \in SeqsUpTo(NodeKinds, MaxNodes)
    /\ topo = NoResult
    /\ BuildIdle
    /\ ApplyIdle
    /\ CliIdle

\* One call of IsClusterSingleNode against a cluster whose members are nodes.
Classify ==
    /\ topo = NoResult
    /\ \E env \in ListEnvs : topo' = IsClusterSingleNode(env, nodes)
    /\ UNCHANGED <<nodes, buildVars, applyVars, cliVars>>

TopoNext == Classify

SpecTopo == TopoInit /\ [][TopoNext]_vars

(***************************************************************************)
(* Reconciler: ApplyMachineConfig against the cluster's collection         *)
(***************************************************************************)
convertFilesKeepComment(files) ==
    [i \in 1..Len(files) |->
        [path |-> files[i].Path,
         mode |-> files[i].Mode,
         overwrite |-> files[i].Overwrite,
         contents |-> [source |-> files[i].Contents.Source],
         comment |-> files[i].Comment]]

convertFiles(files) ==
    [i \in 1..Len(files) |->
        [path |-> files[i].Path,
         mode |-> files[i].Mode,
         overwrite |-> files[i].Overwrite,
         contents |-> [source |-> files[i].Contents.Source]]]

\* resourceVersion 0 stands for the empty string (the field is not set).
toUnstructured(m) ==
    [apiVersion |-> m.APIVersion,
     kind |-> m.Kind,
     metadata |-> [name |-> m.Metadata.Name,
                   labels |-> m.Metadata.Labels,
                   resourceVersion |-> 0],
     spec |-> [config |-> [ignition |-> [version |-> m.Spec.Config.Ignition.Version],
                           storage |-> [files |->
                                           convertFiles(m.Spec.Config.Storage.Files)]]]]

GetResourceVersion(obj) == obj.metadata.resourceVersion
SetResourceVersion(obj, rv) == [obj EXCEPT !.metadata.resourceVersion = rv]

\* The token ApplyMachineConfig puts on the object it updates with.
tokenForUpdateUnset(found) == 0

tokenForUpdate(found) == GetResourceVersion(found)

\* Where ApplyMachineConfig goes with the error of its Get.
branchAfterGetCreateNever(err) == IF err = Nil THEN "update" ELSE "done"

branchAfterGet(err) == IF err = Nil THEN "update" ELSE "create"

\* What ApplyMachineConfig does with the answer of Update and of Create:
\* its next position and the error it returns.
afterUpdateIgnoreConflict(err) ==
    [pc |-> "done",
     ret |-> IF err = Nil \/ err.msg = "Conflict" THEN Nil
             ELSE Error("failed to update MachineConfig: %w", <<err>>)]

afterUpdateFallBackToCreate(err) ==
    IF err = Nil THEN [pc |-> "done", ret |-> Nil]
    ELSE [pc |-> "create", ret |-> NoResult]

afterUpdate(err) ==
    [pc |-> "done",
     ret |-> IF err = Nil THEN Nil
             ELSE Error("failed to update MachineConfig: %w", <<err>>)]

afterCreateIgnoreExists(err) ==
    [pc |-> "done",
     ret |-> IF err = Nil \/ err.msg = "AlreadyExists" THEN Nil
             ELSE Error("failed to create MachineConfig: %w", <<err>>)]

afterCreateRetryOnError(err) ==
    IF err = Nil THEN [pc |-> "done", ret |-> Nil]
    ELSE [pc |-> "get", ret |-> NoResult]

afterCreate(err) ==
    [pc |-> "done",
     ret |-> IF err = Nil THEN Nil
             ELSE Error("failed to create MachineConfig: %w", <<err>>)]

\* The API server's side of the three calls on machineConfigGVR.  A call can
\* fail for a reason that has nothing to do with the collection (fault); a
\* fault of "none" lets the collection decide.
Absent == [absent |-> TRUE]
Faults == {"none", "Forbidden", "ServiceUnavailable"}
StatusError(reason) == Error(reason, <<>>)

ServerGet(st, name, fault) ==
    IF fault # "none" THEN [obj |-> Nil, err |-> StatusError(fault), store |-> st]
    ELSE IF st[name] = Absent
         THEN [obj |-> Nil, err |-> StatusError("NotFound"), store |-> st]
         ELSE [obj |-> st[name], err |-> Nil, store |-> st]

ServerCreate(st, obj, fault) ==
    LET name == obj.metadata.name
    IN  IF fault # "none" THEN [obj |-> Nil, err |-> StatusError(fault), store |-> st]
        ELSE IF st[name] # Absent
             THEN [obj |-> Nil, err |-> StatusError("AlreadyExists"), store |-> st]
             ELSE LET stored == SetResourceVersion(obj, 1)
                  IN  [obj |-> stored, err |-> Nil,
                       store |-> [st EXCEPT ![name] = stored]]

ServerUpdate(st, obj, fault) ==
    LET name == obj.metadata.name
    IN  IF fault # "none" THEN [obj |-> Nil, err |-> StatusError(fault), store |-> st]
        ELSE IF st[name] = Absent
             THEN [obj |-> Nil, err |-> StatusError("NotFound"), store |-> st]
             ELSE IF GetResourceVersion(obj) = 0
                  THEN [obj |-> Nil, err |-> StatusError("Invalid"), store |-> st]
                  ELSE IF GetResourceVersion(obj) # GetResourceVersion(st[name])
                       THEN [obj |-> Nil, err |-> StatusError("Conflict"), store |-> st]
                       ELSE LET stored == SetResourceVersion(obj,
                                              GetResourceVersion(st[name]) + 1)
                            IN  [obj |-> stored, err |-> Nil,
                                 store |-> [st EXCEPT ![name] = stored]]

Event(p, op, name, obj, err) ==
    [who |-> p, op |-> op, name |-> name, obj |-> obj, err |-> err]

\* ApplyMachineConfig up to its first remote call: the two client
\* constructors, either of which can fail, and toUnstructured.
ApplyStart(p) ==
    /\ pc[p] = "start"
    /\ \E env \in {"configErr", "clientErr", "ok"} :
          IF env = "configErr"
          THEN /\ pc' = [pc EXCEPT ![p] = "done"]
               /\ result' = [result EXCEPT ![p] = Error("failed to build config: %w", <<>>)]
          ELSE IF env = "clientErr"
          THEN /\ pc' = [pc EXCEPT ![p] = "done"]
               /\ result' = [result EXCEPT
                                ![p] = Error("failed to create dynamic client: %w", <<>>)]
          ELSE /\ pc' = [pc EXCEPT ![p] = "get"]
               /\ UNCHANGED result
    /\ UNCHANGED <<store, mc, existing, events>>

\* The Get by name and the branch taken on its error.
ApplyGet(p) ==
    /\ pc[p] = "get"
    /\ \E fault \in Faults :
          LET name == mc[p].Metadata.Name
              r == ServerGet(store, name, fault)
          IN  /\ existing' = [existing EXCEPT ![p] = r.obj]
              /\ events' = Append(events, Event(p, "get", name, r.obj, r.err))
              /\ pc' = [pc EXCEPT ![p] = branchAfterGet(r.err)]
              /\ store' = r.store
    /\ UNCHANGED <<mc, result>>

\* err == nil: carry the token of the copy over and Update.
ApplyUpdate(p) ==
    /\ pc[p] = "update"
    /\ \E fault \in Faults :
          LET obj == SetResourceVersion(toUnstructured(mc[p]), tokenForUpdate(existing[p]))
              r == ServerUpdate(store, obj, fault)
              next == afterUpdate(r.err)
          IN  /\ events' = Append(events, Event(p, "update", obj.metadata.name, obj, r.err))
              /\ store' = r.store
              /\ pc' = [pc EXCEPT ![p] = next.pc]
              /\ result' = [result EXCEPT ![p] = next.ret]
    /\ UNCHANGED <<mc, existing>>

\* err != nil: Create.
ApplyCreate(p) ==
    /\ pc[p] = "create"
    /\ \E fault \in Faults :
          LET obj == toUnstructured(mc[p])
              r == ServerCreate(store, obj, fault)
              next == afterCreate(r.err)
          IN  /\ events' = Append(events, Event(p, "create", obj.metadata.name, obj, r.err))
              /\ store' = r.store
              /\ pc' = [pc EXCEPT ![p] = next.pc]
              /\ result' = [result EXCEPT ![p] = next.ret]
    /\ UNCHANGED <<mc, existing>>

\* The resources the invocations are handed, and the object a name may
\* already hold in the cluster.
ApplyResources ==
    {NewMachineConfigWithExplicitNames(n, r, <<pair[1]>>, <<pair[2]>>).mc :
        n \in MCNames, r \in Roles,
        pair \in {<<"aa:bb:cc:dd:ee:ff", "ptp0">>, <<"11:22:33:44:55:66", "ptp1">>}}

OldObject(n) ==
    SetResourceVersion(
        toUnstructured(NewMachineConfigWithPolicy(n, "worker",
                           <<"aa:bb:cc:dd:ee:ff", "11:22:33:44:55:66">>, "slot").mc),
        1)

ApplyInit ==
    /\ store \in {[n \in MCNames |-> IF n \in present THEN OldObject(n) ELSE Absent] :
                     present \in SUBSET MCNames}
    /\ mc \in [Invocations -> ApplyResources]
    /\ pc = [p \in Invocations |-> "start"]
    /\ existing = [p \in Invocations |-> Nil]
    /\ result = [p \in Invocations |-> NoResult]
    /\ events = <<>>
    /\ TopoIdle
    /\ BuildIdle
    /\ CliIdle

\* Two invocations of ApplyMachineConfig run against the same cluster; each
\* step is one of them reaching its next remote call.
InvocationStarts == \E p \in Invocations : ApplyStart(p) /\ UNCHANGED <<topoVars, buildVars, cliVars>>
InvocationGets == \E p \in Invocations : ApplyGet(p) /\ UNCHANGED <<topoVars, buildVars, cliVars>>
InvocationUpdates == \E p \in Invocations : ApplyUpdate(p) /\ UNCHANGED <<topoVars, buildVars, cliVars>>
InvocationCreates == \E p \in Invocations : ApplyCreate(p) /\ UNCHANGED <<topoVars, buildVars, cliVars>>

ApplyNext ==
    \/ InvocationStarts
    \/ InvocationGets
    \/ InvocationUpdates
    \/ InvocationCreates

SpecApply == ApplyInit /\ [][ApplyNext]_vars

(***************************************************************************)
(* The command: runRoot and what it calls                                  *)
(***************************************************************************)
\* parseMACAddresses and parseCommaSeparated: split on commas, trim, drop
\* the empty parts.
parseCommaSeparated(input) ==
    IF input = "" THEN <<>>
    ELSE LET parts == Split(input, ",")
             trimmed == [i \in 1..Len(parts) |-> TrimSpace(parts[i])]
             nonEmpty(t) == t # ""
         IN  SelectSeq(trimmed, nonEmpty)

parseMACAddresses(input) == parseCommaSeparated(input)

\* getKubeconfigPath: the flag, else $KUBECONFIG, else ~/.kube/config, else
\* "" when the home directory is unknown (homeDir "").
getKubeconfigPath(f) ==
    IF f.kubeconfig # "" THEN f.kubeconfig
    ELSE IF f.envKubeconfig # "" THEN f.envKubeconfig
    ELSE IF f.homeDir = "" THEN ""
    ELSE f.homeDir \o "/.kube/config"

\* One pass of the line loop of parseUdevadmOutput over acc = <<vendor, model>>.
udevLine(acc, rawLine) ==
    LET line == TrimSpace(rawLine)
        v == IF HasPrefix(line, "ID_VENDOR_ID=")
             THEN ensure0x(TrimPrefix(line, "ID_VENDOR_ID="))
             ELSE acc[1]
        m == IF HasPrefix(line, "ID_MODEL_ID=")
             THEN ensure0x(TrimPrefix(line, "ID_MODEL_ID="))
             ELSE acc[2]
    IN  <<v, m>>

RECURSIVE udevLines(_, _, _)
udevLines(lines, i, acc) ==
    IF i > Len(lines) THEN acc
    ELSE udevLines(lines, i + 1, udevLine(acc, lines[i]))

parseUdevadmOutputBothMissing(output, ifName) ==
    LET ids == udevLines(Split(output, "\n"), 1, <<"", "">>)
    IN  IF ids[1] = "" /\ ids[2] = ""
        THEN [vendorID |-> "", modelID |-> "",
              err |-> Error("could not find vendor ID and/or model ID for interface %s",
                            <<ifName>>)]
        ELSE [vendorID |-> ids[1], modelID |-> ids[2], err |-> Nil]

parseUdevadmOutput(output, ifName) ==
    LET ids == udevLines(Split(output, "\n"), 1, <<"", "">>)
    IN  IF ids[1] = "" \/ ids[2] = ""
        THEN [vendorID |-> "", modelID |-> "",
              err |-> Error("could not find vendor ID and/or model ID for interface %s",
                            <<ifName>>)]
        ELSE [vendorID |-> ids[1], modelID |-> ids[2], err |-> Nil]

\* Lines a probe may print, and the outputs made of up to MaxProbeLines of them.
MaxProbeLines == 3
ProbeLines ==
    {"ID_VENDOR_ID=8086", "ID_VENDOR_ID=0x15b3", "ID_VENDOR_ID=",
     "ID_MODEL_ID=153a", "  ID_MODEL_ID=0x1017\r", "ID_VENDOR_ID_FROM_DATABASE=Intel",
     "ID_NET_DRIVER=igb", ""}

ProbeInit ==
    /\ \E lines \in SeqsUpTo(ProbeLines, MaxProbeLines), ifName \in IfNames :
          probed = [lines |-> lines, ifName |-> ifName, out |-> NoResult]
    /\ macs = <<>> /\ names = <<>> /\ built = NoResult /\ hwids = NoResult
    /\ EncodeIdle
    /\ MarshalIdle
    /\ TopoIdle
    /\ ApplyIdle
    /\ CliIdle

\* One call of parseUdevadmOutput on the drawn output.
ParseProbe ==
    /\ probed.out = NoResult
    /\ probed' = [probed EXCEPT
                    !.out = parseUdevadmOutput(Join(probed.lines, "\n"), probed.ifName)]
    /\ UNCHANGED <<macs, names, built, text, encoded, hwids, rendered,
                   topoVars, applyVars, cliVars>>

ProbeNext == ParseProbe

SpecProbe == ProbeInit /\ [][ProbeNext]_vars

\* getVendorModelFromInterface and getVendorModelFromClusterNode, given what
\* the subprocess answered: probe.failed (non-zero exit) and probe.output.
getVendorModel(command, probe, ifName) ==
    IF probe.failed
    THEN [vendorID |-> "", modelID |-> "",
          err |-> Error("failed to execute " \o command \o ": %w (output: %s)", <<>>)]
    ELSE parseUdevadmOutput(probe.output, ifName)

FlagsFailure(e, calls) ==
    [macs |-> <<>>, names |-> <<>>, policy |-> "", vendor |-> "", model |-> "",
     err |-> e, calls |-> calls]

validateRestNoExclusion(f, vendor, model, calls) ==
    LET ms == parseMACAddresses(f.macAddresses)
        policy == TrimSpace(f.namePolicy)
        ns == IF f.interfaceNames # "" THEN parseCommaSeparated(f.interfaceNames) ELSE <<>>
    IN  IF (vendor # "" /\ model = "") \/ (vendor = "" /\ model # "")
        THEN FlagsFailure(Error("--vendor and --model must be specified together", <<>>),
                          calls)
        ELSE IF f.node # "" /\ f.refIfName = ""
        THEN FlagsFailure(
                 Error("--node requires --refIfName to specify which interface to detect",
                       <<>>), calls)
        ELSE IF Len(ms) = 0 /\ vendor = ""
        THEN FlagsFailure(
                 Error("at least one matching method must be specified: --macs or --vendor/--model",
                       <<>>), calls)
        ELSE IF policy = "" /\ Len(ns) = 0
        THEN FlagsFailure(Error("either --name-policy or --names must be specified", <<>>),
                          calls)
        ELSE IF Len(ns) > 0 /\ Len(ms) > 0 /\ Len(ns) # Len(ms)
        THEN FlagsFailure(
                 Error("number of names (%d) must match number of MAC addresses (%d)",
                       <<Len(ns), Len(ms)>>), calls)
        ELSE IF vendor # "" /\ Len(ns) > 1
        THEN FlagsFailure(
                 Error("when using --vendor/--model matching, only one interface name can be specified",
                       <<>>), calls)
        ELSE [macs |-> ms, names |-> ns, policy |-> policy, vendor |-> vendor,
              model |-> model, err |-> Nil, calls |-> calls]

validateRestManyNames(f, vendor, model, calls) ==
    LET ms == parseMACAddresses(f.macAddresses)
        policy == TrimSpace(f.namePolicy)
        ns == IF f.interfaceNames # "" THEN parseCommaSeparated(f.interfaceNames) ELSE <<>>
    IN  IF (vendor # "" /\ model = "") \/ (vendor = "" /\ model # "")
        THEN FlagsFailure(Error("--vendor and --model must be specified together", <<>>),
                          calls)
        ELSE IF f.node # "" /\ f.refIfName = ""
        THEN FlagsFailure(
                 Error("--node requires --refIfName to specify which interface to detect",
                       <<>>), calls)
        ELSE IF Len(ms) = 0 /\ vendor = ""
        THEN FlagsFailure(
                 Error("at least one matching method must be specified: --macs or --vendor/--model",
                       <<>>), calls)
        ELSE IF policy = "" /\ Len(ns) = 0
        THEN FlagsFailure(Error("either --name-policy or --names must be specified", <<>>),
                          calls)
        ELSE IF policy # "" /\ Len(ns) > 0
        THEN FlagsFailure(Error("--name-policy and --names are mutually exclusive", <<>>),
                          calls)
        ELSE IF Len(ns) > 0 /\ Len(ms) > 0 /\ Len(ns) # Len(ms)
        THEN FlagsFailure(
                 Error("number of names (%d) must match number of MAC addresses (%d)",
                       <<Len(ns), Len(ms)>>), calls)
        ELSE [macs |-> ms, names |-> ns, policy |-> policy, vendor |-> vendor,
              model |-> model, err |-> Nil, calls |-> calls]

\* The checks of parseAndValidateFlags after the vendor/model detection.
validateRest(f, vendor, model, calls) ==
    LET ms == parseMACAddresses(f.macAddresses)
        policy == TrimSpace(f.namePolicy)
        ns == IF f.interfaceNames # "" THEN parseCommaSeparated(f.interfaceNames) ELSE <<>>
    IN  IF (vendor # "" /\ model = "") \/ (vendor = "" /\ model # "")
        THEN FlagsFailure(Error("--vendor and --model must be specified together", <<>>),
                          calls)
        ELSE IF f.node # "" /\ f.refIfName = ""
        THEN FlagsFailure(
                 Error("--node requires --refIfName to specify which interface to detect",
                       <<>>), calls)
        ELSE IF Len(ms) = 0 /\ vendor = ""
        THEN FlagsFailure(
                 Error("at least one matching method must be specified: --macs or --vendor/--model",
                       <<>>), calls)
        ELSE IF policy = "" /\ Len(ns) = 0
        THEN FlagsFailure(Error("either --name-policy or --names must be specified", <<>>),
                          calls)
        ELSE IF policy # "" /\ Len(ns) > 0
        THEN FlagsFailure(Error("--name-policy and --names are mutually exclusive", <<>>),
                          calls)
        ELSE IF Len(ns) > 0 /\ Len(ms) > 0 /\ Len(ns) # Len(ms)
        THEN FlagsFailure(
                 Error("number of names (%d) must match number of MAC addresses (%d)",
                       <<Len(ns), Len(ms)>>), calls)
        ELSE IF vendor # "" /\ Len(ns) > 1
        THEN FlagsFailure(
                 Error("when using --vendor/--model matching, only one interface name can be specified",
                       <<>>), calls)
        ELSE [macs |-> ms, names |-> ns, policy |-> policy, vendor |-> vendor,
              model |-> model, err |-> Nil, calls |-> calls]

\* parseAndValidateFlags; calls lists the subprocesses it ran.
parseAndValidateFlags(f, probe) ==
    LET vendor == TrimSpace(f.vendorID)
        model == TrimSpace(f.modelID)
    IN  IF f.refIfName = "" THEN validateRest(f, vendor, model, <<>>)
        ELSE IF vendor # "" \/ model # ""
        THEN FlagsFailure(Error("--refIfName cannot be used with --vendor or --model", <<>>),
                          <<>>)
        ELSE IF f.node # "" /\ getKubeconfigPath(f) = ""
        THEN FlagsFailure(
                 Error("--node requires --kubeconfig or KUBECONFIG environment variable",
                       <<>>), <<>>)
        ELSE LET command == IF f.node # "" THEN "oc debug node" ELSE "udevadm"
                 d == getVendorModel(command, probe, f.refIfName)
             IN  IF d.err # Nil
                 THEN FlagsFailure(
                          IF f.node # ""
                          THEN Error("failed to get vendor/model from node %s interface %s: %w",
                                     <<f.node, f.refIfName, d.err>>)
                          ELSE Error("failed to get vendor/model from interface %s: %w",
                                     <<f.refIfName, d.err>>),
                          <<command>>)
                 ELSE validateRest(f, d.vendorID, d.modelID, <<command>>)

generateMachineConfigMacsFirst(isSingleNode, ms, ns, policy, vendor, model, mcName) ==
    LET role == IF isSingleNode THEN "master" ELSE "worker"
    IN  IF Len(ms) = 0 /\ vendor # "" /\ model # ""
        THEN IF Len(ns) > 0
             THEN NewMachineConfigWithPropertyAndName(mcName, role, vendor, model, ns[1])
             ELSE NewMachineConfigWithPropertyAndPolicy(mcName, role, vendor, model, policy)
        ELSE IF Len(ns) > 0
             THEN NewMachineConfigWithExplicitNames(mcName, role, ms, ns)
             ELSE NewMachineConfigWithPolicy(mcName, role, ms, policy)

generateMachineConfigMasterRole(isSingleNode, ms, ns, policy, vendor, model, mcName) ==
    LET role == "master"
    IN  IF vendor # "" /\ model # ""
        THEN IF Len(ns) > 0
             THEN NewMachineConfigWithPropertyAndName(mcName, role, vendor, model, ns[1])
             ELSE NewMachineConfigWithPropertyAndPolicy(mcName, role, vendor, model, policy)
        ELSE IF Len(ns) > 0
             THEN NewMachineConfigWithExplicitNames(mcName, role, ms, ns)
             ELSE NewMachineConfigWithPolicy(mcName, role, ms, policy)

generateMachineConfig(isSingleNode, ms, ns, policy, vendor, model, mcName) ==
    LET role == IF isSingleNode THEN "master" ELSE "worker"
    IN  IF vendor # "" /\ model # ""
        THEN IF Len(ns) > 0
             THEN NewMachineConfigWithPropertyAndName(mcName, role, vendor, model, ns[1])
             ELSE NewMachineConfigWithPropertyAndPolicy(mcName, role, vendor, model, policy)
        ELSE IF Len(ns) > 0
             THEN NewMachineConfigWithExplicitNames(mcName, role, ms, ns)
             ELSE NewMachineConfigWithPolicy(mcName, role, ms, policy)

confirmApplyAnyLine(answer) == ~answer.readErr

\* confirmApply, given the line read from standard input (or a read error).
confirmApply(answer) ==
    IF answer.readErr THEN FALSE
    ELSE LET response == TrimSpace(ToLower(answer.line))
         IN  response = "yes" \/ response = "y"

\* What one run of the command is given, and what its surroundings answer.
FlagSets ==
    [macAddresses : {"", "aa:bb:cc:dd:ee:ff", "aa:bb:cc:dd:ee:ff, 11:22:33:44:55:66"},
     namePolicy : {"", "slot", "slot,path"},
     interfaceNames : {"", " , ", "ptp0", "ptp0,ptp1"},
     vendorID : {"", "8086", "0x8086"},
     modelID : {"", "0x153a"},
     refIfName : {"", "eno1"},
     node : {"", "worker-0"},
     kubeconfig : {"", "/tmp/kubeconfig"},
     envKubeconfig : {""},
     homeDir : {""},
     output : {"", "mc.yaml"},
     apply : BOOLEAN,
     mcName : {"50-interface-rename"}]

Probes ==
    {[failed |-> TRUE, output |-> ""],
     [failed |-> FALSE, output |-> "ID_VENDOR_ID=8086\nID_MODEL_ID=0x153a\n"],
     [failed |-> FALSE, output |-> "ID_VENDOR_ID=0x8086\nID_NET_DRIVER=igb\n"]}

Answers ==
    {[readErr |-> TRUE, line |-> ""],
     [readErr |-> TRUE, line |-> "yes"],
     [readErr |-> FALSE, line |-> "yes\n"],
     [readErr |-> FALSE, line |-> " Y \n"],
     [readErr |-> FALSE, line |-> "no\n"],
     [readErr |-> FALSE, line |-> "\n"]}

CliNodeKinds == {{MasterLabel, WorkerLabel}, {WorkerLabel}, {ControlPlaneLabel}}

CliEvent(op, name, err) == Event("cli", op, name, Nil, err)

CliInit ==
    /\ flags \in FlagSets
    /\ cli = [pc |-> "start", parsed |-> NoResult, isSingleNode |-> FALSE,
              mc |-> Nil, shown |-> Nil, out |-> Nil, ret |-> NoResult]
    /\ store \in {[n \in MCNames |-> Absent], [n \in MCNames |-> OldObject(n)]}
    /\ pc = [p \in Invocations |-> "idle"]
    /\ mc = [p \in Invocations |-> Nil]
    /\ existing = [p \in Invocations |-> Nil]
    /\ result = [p \in Invocations |-> NoResult]
    /\ events = <<>>
    /\ TopoIdle
    /\ BuildIdle

\* runRoot up to its branch on --apply: parseAndValidateFlags, with the
\* subprocess it may run.
CliParse ==
    /\ cli.pc = "start"
    /\ \E probe \in Probes :
          LET r == parseAndValidateFlags(flags, probe)
              ran == [i \in 1..Len(r.calls) |->
                         CliEvent("probe", r.calls[i],
                                  IF probe.failed THEN Error("exit status 1", <<>>) ELSE Nil)]
          IN  /\ events' = events \o ran
              /\ cli' = [cli EXCEPT
                            !.parsed = r,
                            !.ret = IF r.err # Nil THEN r.err ELSE NoResult,
                            !.pc = IF r.err # Nil THEN "done"
                                   ELSE IF flags.apply THEN "classify" ELSE "output"]
    /\ UNCHANGED <<flags, store, pc, mc, existing, result, topoVars, buildVars>>

\* applyToCluster: IsClusterSingleNode and the return on its error.
CliClassify ==
    /\ cli.pc = "classify"
    /\ \E env \in ListEnvs :
       \E items \in IF env = "ok" THEN SeqsUpTo(CliNodeKinds, MaxCliNodes) ELSE {<<>>} :
          LET t == IsClusterSingleNode(env, items)
          IN  /\ nodes' = items
              /\ topo' = t
              /\ events' = IF env = "clientErr" THEN events
                           ELSE Append(events,
                                       CliEvent("list", "nodes",
                                                IF env = "listErr" THEN t.err ELSE Nil))
              /\ cli' = IF t.err # Nil
                        THEN [cli EXCEPT
                                 !.pc = "done",
                                 !.ret = Error("failed to detect cluster topology: %w",
                                               <<t.err>>)]
                        ELSE [cli EXCEPT !.pc = "generate",
                                         !.isSingleNode = t.useMasterRole]
    /\ UNCHANGED <<flags, store, pc, mc, existing, result, buildVars>>

\* applyToCluster: generateMachineConfig and displayMachineConfig.
CliGenerate ==
    /\ cli.pc = "generate"
    /\ LET r == cli.parsed
           g == generateMachineConfig(cli.isSingleNode, r.macs, r.names, r.policy,
                                      r.vendor, r.model, flags.mcName)
       IN  cli' = IF g.err # Nil
                  THEN [cli EXCEPT !.pc = "done", !.ret = g.err]
                  ELSE [cli EXCEPT !.pc = "confirm", !.mc = g.mc, !.shown = g.mc]
    /\ UNCHANGED <<flags, applyVars, topoVars, buildVars>>

\* applyToCluster: confirmApply; on "yes" ApplyMachineConfig is entered.
CliConfirm ==
    /\ cli.pc = "confirm"
    /\ \E answer \in Answers :
          /\ events' = Append(events,
                               CliEvent("prompt", answer.line,
                                        IF answer.readErr THEN Error("EOF", <<>>) ELSE Nil))
          /\ IF confirmApply(answer)
             THEN /\ cli' = [cli EXCEPT !.pc = "apply"]
                  /\ pc' = [pc EXCEPT !["inv1"] = "start"]
                  /\ mc' = [mc EXCEPT !["inv1"] = cli.mc]
             ELSE /\ cli' = [cli EXCEPT !.pc = "done", !.ret = Nil]
                  /\ UNCHANGED <<pc, mc>>
    /\ UNCHANGED <<flags, store, existing, result, topoVars, buildVars>>

\* The steps of the ApplyMachineConfig that applyToCluster called.
CliApplyStarts ==
    cli.pc = "apply" /\ ApplyStart("inv1") /\ UNCHANGED <<topoVars, buildVars, cliVars>>
CliApplyGets ==
    cli.pc = "apply" /\ ApplyGet("inv1") /\ UNCHANGED <<topoVars, buildVars, cliVars>>
CliApplyUpdates ==
    cli.pc = "apply" /\ ApplyUpdate("inv1") /\ UNCHANGED <<topoVars, buildVars, cliVars>>
CliApplyCreates ==
    cli.pc = "apply" /\ ApplyCreate("inv1") /\ UNCHANGED <<topoVars, buildVars, cliVars>>

\* applyToCluster: the return after ApplyMachineConfig.
CliApplyReturns ==
    /\ cli.pc = "apply"
    /\ pc["inv1"] = "done"
    /\ cli' = [cli EXCEPT
                  !.pc = "done",
                  !.ret = IF result["inv1"] = Nil THEN Nil
                          ELSE Error("failed to apply MachineConfig: %w",
                                     <<result["inv1"]>>)]
    /\ UNCHANGED <<flags, applyVars, topoVars, buildVars>>

\* generateAndOutput: the worker-role resource, written to --output or
\* printed.
CliOutput ==
    /\ cli.pc = "output"
    /\ LET r == cli.parsed
           g == generateMachineConfig(FALSE, r.macs, r.names, r.policy,
                                      r.vendor, r.model, flags.mcName)
       IN  IF g.err # Nil
           THEN cli' = [cli EXCEPT !.pc = "done", !.ret = g.err]
           ELSE \E writeFails \in IF flags.output # "" THEN BOOLEAN ELSE {FALSE} :
                   cli' = IF writeFails
                          THEN [cli EXCEPT
                                   !.pc = "done", !.mc = g.mc,
                                   !.ret = Error("failed to write output file: %w", <<>>)]
                          ELSE [cli EXCEPT
                                   !.pc = "done", !.mc = g.mc, !.ret = Nil,
                                   !.out = [file |-> flags.output, resource |-> g.mc]]
    /\ UNCHANGED <<flags, applyVars, topoVars, buildVars>>

CliNext ==
    \/ CliParse
    \/ CliClassify
    \/ CliGenerate
    \/ CliConfirm
    \/ CliApplyStarts
    \/ CliApplyGets
    \/ CliApplyUpdates
    \/ CliApplyCreates
    \/ CliApplyReturns
    \/ CliOutput

SpecCli == CliInit /\ [][CliNext]_vars

\* The command up to the resource it generates: the steps of runRoot before
\* the confirmation and the reconciliation.
GenerateNext ==
    \/ CliParse
    \/ CliClassify
    \/ CliGenerate
    \/ CliOutput

SpecGenerate == CliInit /\ [][GenerateNext]_vars

(***************************************************************************)
(* Properties of the topology classifier                                   *)
(***************************************************************************)
\* A control-plane member carries the master or the control-plane label key.
IsControlPlaneMember(node) == MasterLabel \in node \/ ControlPlaneLabel \in node
IsSchedulableControlPlane(node) == IsControlPlaneMember(node) /\ WorkerLabel \in node
IsDedicatedWorker(node) == WorkerLabel \in node /\ ~IsControlPlaneMember(node)

HasSchedulableControlPlane == \E i \in 1..Len(nodes) : IsSchedulableControlPlane(nodes[i])
HasDedicatedWorker == \E i \in 1..Len(nodes) : IsDedicatedWorker(nodes[i])

Classified == topo # NoResult /\ topo.err = Nil

\* C7: for every non-empty member list the classifier selects the master
\* role iff the list has exactly one member, or it has at least one
\* schedulable control-plane member and no dedicated worker; otherwise it
\* selects the worker role.
C7_MasterRoleIffRule ==
    /\ Classified =>
          (topo.useMasterRole <=>
             (Len(nodes) = 1 \/ (HasSchedulableControlPlane /\ ~HasDedicatedWorker)))
    /\ (topo # NoResult /\ Len(nodes) > 0) => topo.err # ErrNoNodes

C7_Witness ==
    /\ Classified
    /\ Len(nodes) = 3
    /\ topo.useMasterRole
    /\ \A i \in 1..Len(nodes) : IsSchedulableControlPlane(nodes[i])

\* C8 as stated: every member list holding a dedicated worker is classified
\* to the worker role, whatever the total member count.
C8_DedicatedWorkerAlwaysWorkerRole ==
    (Classified /\ HasDedicatedWorker) => ~topo.useMasterRole

\* C8 as amended: every member list of two or more members holding a
\* dedicated worker is classified to the worker role, whatever the number of
\* control-plane members; a list of exactly one member is classified to the
\* master role even when that member is a dedicated worker.
C8_DedicatedWorkerAmongSeveral ==
    /\ (Classified /\ HasDedicatedWorker /\ Len(nodes) >= 2) => ~topo.useMasterRole
    /\ (Classified /\ Len(nodes) = 1) => topo.useMasterRole

C8_Witness ==
    /\ Classified
    /\ Len(nodes) >= 2
    /\ HasDedicatedWorker
    /\ HasSchedulableControlPlane
    /\ ~topo.useMasterRole

\* The number of members of the list that satisfy P.
Members(P(_)) == Cardinality({i \in 1..Len(nodes) : P(nodes[i])})

IsUnlabeled(node) == node \cap RoleLabels = {}

\* C28: for every member list the counts of the classifier are: control-plane
\* = members with the master or the control-plane label, each once;
\* schedulable = members with a control-plane label and the worker label;
\* dedicated-worker = members with the worker label and no control-plane
\* label.  Hence schedulable <= control-plane <= total and schedulable +
\* dedicated-worker <= total, and a member with none of the labels adds to
\* the total only.
C28_CountsPartitionMembers ==
    Classified =>
        LET counts == countNodeRoles(nodes)
            total == Len(nodes)
        IN  /\ counts.controlPlane = Members(IsControlPlaneMember)
            /\ counts.schedulableMasters = Members(IsSchedulableControlPlane)
            /\ counts.workerOnly = Members(IsDedicatedWorker)
            /\ counts.schedulableMasters <= counts.controlPlane
            /\ counts.controlPlane <= total
            /\ counts.schedulableMasters + counts.workerOnly <= total
            /\ counts.controlPlane + counts.workerOnly + Members(IsUnlabeled) = total
            /\ topo.info.nodes = total
            /\ topo.info.controlPlane = Members(IsControlPlaneMember)
            /\ topo.info.workersTotal =
                  Members(IsSchedulableControlPlane) + Members(IsDedicatedWorker)
            /\ topo.info.schedulableLine <=> HasSchedulableControlPlane
            /\ topo.info.dedicatedLine <=> HasDedicatedWorker

C28_Witness ==
    /\ Classified
    /\ Len(nodes) = 3
    /\ Members(IsSchedulableControlPlane) = 1
    /\ Members(IsDedicatedWorker) = 1
    /\ Members(IsUnlabeled) = 1
    /\ \E i \in 1..3 : nodes[i] = {MasterLabel, ControlPlaneLabel, WorkerLabel}
    /\ topo.info.controlPlane = 1
    /\ topo.info.workersTotal = 2

(***************************************************************************)
(* Properties of the builders                                              *)
(***************************************************************************)
BuiltBy(fn) == built # NoResult /\ built.fn = fn

\* C10: NewMachineConfigWithExplicitNames fails for every MAC list and name
\* list of unequal length, the error carries both counts and no resource is
\* returned with it; for lists of equal length it does not fail.
C10_CardinalityMismatchFails ==
    BuiltBy("NewMachineConfigWithExplicitNames") =>
        /\ Len(macs) # Len(names) =>
              /\ built.out.mc = Nil
              /\ built.out.err # Nil
              /\ built.out.err.args = <<Len(macs), Len(names)>>
        /\ Len(macs) = Len(names) =>
              /\ built.out.err = Nil
              /\ built.out.mc # Nil

C10_Witness ==
    /\ BuiltBy("NewMachineConfigWithExplicitNames")
    /\ Len(names) > Len(macs)
    /\ Len(macs) > 0
    /\ built.out.mc = Nil
    /\ built.out.err.args = <<Len(macs), Len(names)>>

\* Percent-decoding, written from the decoder's side: %XX -> the byte.
HexByte ==
    [h \in {"0A", "20", "21", "23", "24", "25", "26", "28", "29", "2A", "2B", "2C",
            "2F", "3A", "3B", "3C", "3D", "3E", "3F", "40", "5B", "5D", "5E",
            "7B", "7C", "7D"} |->
        CASE h = "0A" -> "\n" [] h = "20" -> " " [] h = "21" -> "!" [] h = "23" -> "#"
          [] h = "24" -> "$" [] h = "25" -> "%" [] h = "26" -> "&" [] h = "28" -> "("
          [] h = "29" -> ")" [] h = "2A" -> "*" [] h = "2B" -> "+" [] h = "2C" -> ","
          [] h = "2F" -> "/" [] h = "3A" -> ":" [] h = "3B" -> ";" [] h = "3C" -> "<"
          [] h = "3D" -> "=" [] h = "3E" -> ">" [] h = "3F" -> "?" [] h = "40" -> "@"
          [] h = "5B" -> "[" [] h = "5D" -> "]" [] h = "5E" -> "^" [] h = "7B" -> "{"
          [] h = "7C" -> "|" [] h = "7D" -> "}"]

\* Percent-decoding in one pass: a "%" and the two hex digits after it stand
\* for one byte, every other byte for itself.
PercentDecode(s) ==
    LET at == {i \in 1..Len(s) : SubSeq(s, i, i) = "%"}
        piece(i) == IF i \in at THEN HexByte[SubSeq(s, i + 1, i + 2)]
                    ELSE IF (i - 1) \in at \/ (i - 2) \in at THEN ""
                    ELSE SubSeq(s, i, i)
    IN  Concat([i \in 1..Len(s) |-> piece(i)])

DataPrefix == "data:text/plain,"

\* The plain text a file's source decodes to, as a list of lines.
DecodedLines(file) ==
    Split(PercentDecode(TrimPrefix(file.Contents.Source, DataPrefix)), "\n")

FilesOf(m) == m.Spec.Config.Storage.Files

\* C11: for a MAC list and a name list of equal length n,
\* NewMachineConfigWithExplicitNames returns n files in input order; the i-th
\* file has path /etc/systemd/network/10-<names[i]>.link and its content
\* decodes to a [Match] section with MACAddress=<macs[i]>, the MAC as given,
\* and a [Link] section with Name=<names[i]>.
C11_PositionalPairing ==
    (BuiltBy("NewMachineConfigWithExplicitNames") /\ Len(macs) = Len(names)) =>
        /\ built.out.err = Nil
        /\ Len(FilesOf(built.out.mc)) = Len(macs)
        /\ \A i \in 1..Len(macs) :
              LET file == FilesOf(built.out.mc)[i] IN
              /\ file.Path = "/etc/systemd/network/10-" \o names[i] \o ".link"
              /\ HasPrefix(file.Contents.Source, DataPrefix)
              /\ DecodedLines(file) =
                    <<"[Match]", "MACAddress=" \o macs[i], "",
                      "[Link]", "Name=" \o names[i], "">>

C11_Witness ==
    /\ BuiltBy("NewMachineConfigWithExplicitNames")
    /\ macs = <<"AA:BB:CC:DD:EE:0F", "aa:bb:cc:dd:ee:ff", "aa:bb:cc:dd:ee:ff">>
    /\ names = <<"ptp1", "ptp0", "ptp0">>
    /\ Len(FilesOf(built.out.mc)) = 3
    /\ DecodedLines(FilesOf(built.out.mc)[1])[2] = "MACAddress=AA:BB:CC:DD:EE:0F"
    /\ DecodedLines(FilesOf(built.out.mc)[1])[5] = "Name=ptp1"

\* C12: for every text block, encodeLinkFile returns "data:text/plain,"
\* followed by a string that holds no "+" and no space and that
\* percent-decodes to the text block, byte for byte.
C12_EncodeRoundTrip ==
    encoded # NoResult =>
        /\ HasPrefix(encoded.out, DataPrefix)
        /\ LET e == TrimPrefix(encoded.out, DataPrefix)
           IN  /\ ~Contains(e, "+")
               /\ ~Contains(e, " ")
               /\ PercentDecode(e) = text

C12_Witness ==
    /\ encoded # NoResult
    /\ text = "+ ="
    /\ encoded.out = "data:text/plain,%2B%20%3D"

\* An ID without its 0x prefix.
Bare(id) == TrimPrefix(id, "0x")

BuiltFromProperty ==
    BuiltBy("NewMachineConfigWithPropertyAndName")
        \/ BuiltBy("NewMachineConfigWithPropertyAndPolicy")

\* C13: an ID given with and without the 0x prefix renders to the same two
\* match lines, Property=ID_VENDOR_ID=0x<id> then Property=ID_MODEL_ID=0x<id>,
\* in the file's source and in its comment; an ID that already has the
\* prefix appears unchanged.
C13_HardwareIdCanonical ==
    BuiltFromProperty =>
        LET file == FilesOf(built.out.mc)[1]
            lines == DecodedLines(file)
        IN  /\ Len(FilesOf(built.out.mc)) = 1
            /\ lines = Split(file.Comment, "\n")
            /\ lines[1] = "[Match]"
            /\ lines[2] = "Property=ID_VENDOR_ID=0x" \o Bare(hwids.vendorID)
            /\ lines[3] = "Property=ID_MODEL_ID=0x" \o Bare(hwids.modelID)
            /\ lines[4] = ""
            /\ lines[5] = "[Link]"
            /\ HasPrefix(hwids.vendorID, "0x") =>
                  lines[2] = "Property=ID_VENDOR_ID=" \o hwids.vendorID
            /\ HasPrefix(hwids.modelID, "0x") =>
                  lines[3] = "Property=ID_MODEL_ID=" \o hwids.modelID

C13_Witness ==
    /\ BuiltBy("NewMachineConfigWithPropertyAndPolicy")
    /\ hwids = [vendorID |-> "0x8086", modelID |-> "153a"]
    /\ DecodedLines(FilesOf(built.out.mc)[1])[2] = "Property=ID_VENDOR_ID=0x8086"
    /\ DecodedLines(FilesOf(built.out.mc)[1])[3] = "Property=ID_MODEL_ID=0x153a"

Builders ==
    {"NewMachineConfigWithNames", "NewMachineConfigWithExplicitNames",
     "NewMachineConfigWithPolicy", "NewMachineConfigWithPropertyAndName",
     "NewMachineConfigWithPropertyAndPolicy"}

ReturnedResource == built # NoResult /\ built.fn \in Builders /\ built.out.mc # Nil

\* C22: every resource a builder returns has apiVersion
\* machineconfiguration.openshift.io/v1, kind MachineConfig, ignition
\* version 3.2.0, the name it was given, the one label
\* machineconfiguration.openshift.io/role with the role it was given, and
\* only files of mode 0644 (octal) with overwrite true.
C22_ResourceConstants ==
    ReturnedResource =>
        LET m == built.out.mc IN
        /\ m.APIVersion = "machineconfiguration.openshift.io/v1"
        /\ m.Kind = "MachineConfig"
        /\ m.Spec.Config.Ignition.Version = "3.2.0"
        /\ m.Metadata.Name = built.name
        /\ DOMAIN m.Metadata.Labels = {"machineconfiguration.openshift.io/role"}
        /\ m.Metadata.Labels["machineconfiguration.openshift.io/role"] = built.role
        /\ \A i \in 1..Len(FilesOf(m)) :
              /\ FilesOf(m)[i].Mode = 6 * 64 + 4 * 8 + 4
              /\ FilesOf(m)[i].Overwrite = TRUE

C22_Witness ==
    /\ ReturnedResource
    /\ built.fn = "NewMachineConfigWithPolicy"
    /\ built.role = "master"
    /\ built.name = "50-ptp-interface"
    /\ Len(FilesOf(built.out.mc)) = 3
    /\ built.out.mc.Metadata.Labels["machineconfiguration.openshift.io/role"] = "master"

PairwiseDistinct(q) == \A i, j \in 1..Len(q) : i # j => q[i] # q[j]

PathsOf(m) == [i \in 1..Len(FilesOf(m)) |-> FilesOf(m)[i].Path]

\* C23: for every list of pairwise distinct MAC address strings,
\* NewMachineConfigWithPolicy returns one file per MAC and the paths of these
\* files are pairwise distinct.
C23_PolicyPathsDistinct ==
    (BuiltBy("NewMachineConfigWithPolicy") /\ PairwiseDistinct(macs)) =>
        /\ Len(FilesOf(built.out.mc)) = Len(macs)
        /\ PairwiseDistinct(PathsOf(built.out.mc))

\* An ID as it is meant to appear in a file name: without the 0x prefix and
\* without colons.
Sanitized(id) == ReplaceAll(Bare(id), ":", "")

\* C24: NewMachineConfigWithPropertyAndPolicy returns exactly one file, at
\* /etc/systemd/network/10-interface-<V>-<M>.link with V and M the vendor
\* and model IDs without the 0x prefix and without colons; the file name
\* holds no colon and no 0x.
C24_PropertyPolicyPath ==
    BuiltBy("NewMachineConfigWithPropertyAndPolicy") =>
        /\ Len(FilesOf(built.out.mc)) = 1
        /\ PathsOf(built.out.mc)[1] =
              "/etc/systemd/network/10-interface-" \o Sanitized(hwids.vendorID)
                  \o "-" \o Sanitized(hwids.modelID) \o ".link"
        /\ ~Contains(PathsOf(built.out.mc)[1], ":")
        /\ ~Contains(PathsOf(built.out.mc)[1], "0x")

\* The 0-based index of the i-th list entry, written in decimal.
IndexText(i) == <<"0", "1", "2", "3", "4", "5", "6", "7", "8", "9">>[i]

\* C25: NewMachineConfigWithNames does not fail and returns one file per
\* MAC in input order; the file of the MAC at 0-based index i has path
\* /etc/systemd/network/10-<prefix><i>.link, i in plain decimal, and decodes
\* to MACAddress=<that MAC> and Name=<prefix><i>.
C25_IndexedNames ==
    BuiltBy("NewMachineConfigWithNames") =>
        /\ built.out.err = Nil
        /\ built.out.mc # Nil
        /\ Len(FilesOf(built.out.mc)) = Len(macs)
        /\ \A i \in 1..Len(macs) :
              LET file == FilesOf(built.out.mc)[i] IN
              /\ file.Path =
                    "/etc/systemd/network/10-" \o built.arg \o IndexText(i) \o ".link"
              /\ DecodedLines(file) =
                    <<"[Match]", "MACAddress=" \o macs[i], "",
                      "[Link]", "Name=" \o built.arg \o IndexText(i), "">>

C25_Witness ==
    /\ BuiltBy("NewMachineConfigWithNames")
    /\ built.arg = "eth"
    /\ macs = <<"AA:BB:CC:DD:EE:0F", "aa:bb:cc:dd:ee:ff", "AA:BB:CC:DD:EE:0F">>
    /\ PathsOf(built.out.mc) =
          <<"/etc/systemd/network/10-eth0.link", "/etc/systemd/network/10-eth1.link",
            "/etc/systemd/network/10-eth2.link">>

\* The values the output gives for a key: what follows "<key>=" on the lines
\* that, white space apart, start with it.
ValuesOf(key) ==
    LET trimmed == [i \in 1..Len(probed.lines) |-> TrimSpace(probed.lines[i])]
        hasKey(l) == HasPrefix(l, key \o "=")
        found == SelectSeq(trimmed, hasKey)
    IN  [i \in 1..Len(found) |-> SubSeq(found[i], Len(key) + 2, Len(found[i]))]

\* What is returned for a value read from the output.
WithPrefixOnce(value) ==
    IF Len(value) >= 2 /\ SubSeq(value, 1, 2) = "0x" THEN value ELSE "0x" \o value

Probed == probed # NoResult /\ probed.out # NoResult

\* C26: parseUdevadmOutput fails with an error naming the interface whenever
\* the output has no ID_VENDOR_ID or no ID_MODEL_ID key; when it succeeds both
\* values are non-empty and start with 0x: the value the output gives, as it
\* is when it carries the prefix and prefixed once when it does not.
C26_ProbeOutputParsed ==
    Probed =>
        LET vendors == ValuesOf("ID_VENDOR_ID")
            models == ValuesOf("ID_MODEL_ID")
            out == probed.out
        IN  /\ (vendors = <<>> \/ models = <<>>) =>
                  /\ out.err # Nil
                  /\ out.err.args = <<probed.ifName>>
                  /\ out.vendorID = "" /\ out.modelID = ""
            /\ out.err = Nil =>
                  /\ out.vendorID # "" /\ out.modelID # ""
                  /\ SubSeq(out.vendorID, 1, 2) = "0x"
                  /\ SubSeq(out.modelID, 1, 2) = "0x"
                  /\ vendors # <<>> /\ models # <<>>
                  /\ out.vendorID = WithPrefixOnce(vendors[Len(vendors)])
                  /\ out.modelID = WithPrefixOnce(models[Len(models)])

C26_Witness ==
    /\ Probed
    /\ probed.lines = <<"ID_VENDOR_ID=8086", "ID_NET_DRIVER=igb", "  ID_MODEL_ID=0x1017\r">>
    /\ probed.out = [vendorID |-> "0x8086", modelID |-> "0x1017", err |-> Nil]

Marshalled == rendered # NoResult /\ rendered.out # NoResult

\* The lines of the rendered text, and the positions of those that open a
\* file entry: "- path: " after the indentation.
RenderedLines == Split(rendered.out.data, "\n")

PathLines ==
    LET at == {i \in 1..Len(RenderedLines) : HasPrefix(TrimSpace(RenderedLines[i]), "- path: ")}
        below(i) == Cardinality({j \in at : j < i})
    IN  [n \in 1..Cardinality(at) |-> CHOOSE i \in at : below(i) = n - 1]

NonBlank(lines) == SelectSeq(lines, LAMBDA l : l # "")

\* The i-th file entry is followed by its own content, and by nothing else
\* that is a comment.
AnnotatedWithOwnContent(i) ==
    LET own == NonBlank(DecodedLines(FilesOf(rendered.mc)[i]))
        at == PathLines[i]
    IN  /\ at + Len(own) + 1 <= Len(RenderedLines)
        /\ \A k \in 1..Len(own) : RenderedLines[at + k] = "          # " \o own[k]
        /\ ~HasPrefix(TrimSpace(RenderedLines[at + Len(own) + 1]), "#")

\* C27: in the text MarshalMachineConfig returns for a resource of a builder
\* that keeps the plain text, the path line of the i-th file entry is followed
\* by the non-blank lines of the i-th file's own decoded content, in order, as
\* comment lines, whatever the path is.
C27_OwnContentBeneathPath ==
    Marshalled =>
        /\ rendered.out.err = Nil
        /\ Len(PathLines) = Len(FilesOf(rendered.mc))
        /\ \A i \in 1..Len(FilesOf(rendered.mc)) : AnnotatedWithOwnContent(i)

\* The same when every path is one the plain style can carry.
C27_PlainPathsAnnotated ==
    (Marshalled /\ \A i \in 1..Len(FilesOf(rendered.mc)) :
                      yamlPlainAllowed(FilesOf(rendered.mc)[i].Path)) =>
        /\ rendered.out.err = Nil
        /\ Len(PathLines) = Len(FilesOf(rendered.mc))
        /\ \A i \in 1..Len(FilesOf(rendered.mc)) : AnnotatedWithOwnContent(i)

(***************************************************************************)
(* Properties of the reconciler                                            *)
(***************************************************************************)
EventsOf(p) ==
    LET by(e) == e.who = p IN SelectSeq(events, by)
CallsOf(p, op) ==
    LET is(e) == e.who = p /\ e.op = op IN SelectSeq(events, is)
WritesOf(p) ==
    LET is(e) == e.who = p /\ e.op \in {"create", "update"} IN SelectSeq(events, is)
Count(p, op) == Len(CallsOf(p, op))

IsNotFound(err) == err # Nil /\ err.msg = "NotFound"
IsOtherFailure(err) == err # Nil /\ err.msg # "NotFound"
Returned(p) == pc[p] = "done"
ReturnedError(p) == Returned(p) /\ result[p] # Nil /\ result[p] # NoResult
ReturnedSuccess(p) == Returned(p) /\ result[p] = Nil

LookupNotFound(p) == Count(p, "get") = 1 /\ IsNotFound(CallsOf(p, "get")[1].err)
LookupFound(p) == Count(p, "get") = 1 /\ CallsOf(p, "get")[1].err = Nil
LookupFailed(p) == Count(p, "get") = 1 /\ IsOtherFailure(CallsOf(p, "get")[1].err)

NameOf(p) == mc[p].Metadata.Name

\* C1: a Get that fails with anything but "not found" is returned to the
\* caller as the lookup's error, and the invocation issues neither a create
\* nor an update.
C1_LookupFailurePropagates ==
    \A p \in Invocations :
        LookupFailed(p) =>
            /\ Count(p, "create") = 0
            /\ Count(p, "update") = 0
            /\ Returned(p) =>
                  /\ ReturnedError(p)
                  /\ result[p].args = <<CallsOf(p, "get")[1].err>>

\* C2: when the Get answers "not found", exactly one create is issued, for
\* the built resource, and no update; the invocation succeeds iff that
\* create succeeds.
C2_NotFoundRoutesToCreate ==
    \A p \in Invocations :
        LookupNotFound(p) =>
            /\ Count(p, "update") = 0
            /\ Count(p, "create") <= 1
            /\ Returned(p) =>
                  /\ Count(p, "create") = 1
                  /\ CallsOf(p, "create")[1].obj = toUnstructured(mc[p])
                  /\ ReturnedSuccess(p) <=> CallsOf(p, "create")[1].err = Nil

C2_Witness ==
    \E p \in Invocations :
        /\ LookupNotFound(p)
        /\ ReturnedSuccess(p)
        /\ Count(p, "create") = 1
        /\ store[NameOf(p)] # Absent

\* C3: when the Get succeeds, exactly one update is issued, named as the
\* built resource and carrying the resourceVersion of the copy that Get
\* returned, and no create.
C3_FoundRoutesToUpdateWithToken ==
    \A p \in Invocations :
        LookupFound(p) =>
            /\ Count(p, "create") = 0
            /\ Count(p, "update") <= 1
            /\ Returned(p) => Count(p, "update") = 1
            /\ \A i \in 1..Count(p, "update") :
                  LET u == CallsOf(p, "update")[i]
                      found == CallsOf(p, "get")[1].obj
                  IN  /\ u.name = NameOf(p)
                      /\ u.obj.metadata.name = NameOf(p)
                      /\ found # Nil
                      /\ found.metadata.resourceVersion > 0
                      /\ u.obj.metadata.resourceVersion = found.metadata.resourceVersion

C3_Witness ==
    \E p \in Invocations :
        /\ LookupFound(p)
        /\ ReturnedSuccess(p)
        /\ Count(p, "update") = 1
        /\ CallsOf(p, "update")[1].obj.metadata.resourceVersion = 1

Other(p) == CHOOSE q \in Invocations : q # p
SameName == \A p, q \in Invocations : NameOf(p) = NameOf(q)
IsWrite(e) == e.op \in {"create", "update"}
FaultReasons == Faults \ {"none"}

CreateWinners ==
    {p \in Invocations : Count(p, "create") = 1 /\ CallsOf(p, "create")[1].err = Nil}
UpdateWinners ==
    {p \in Invocations : Count(p, "update") = 1 /\ CallsOf(p, "update")[1].err = Nil}

\* Both invocations target one name, both Gets answered "not found", and
\* both have returned.
RaceOnAbsent ==
    SameName /\ \A p \in Invocations : LookupNotFound(p) /\ Returned(p)

\* C4: two invocations for one name that both saw "not found": at most one
\* create succeeds; when one does, the other invocation returns an error and
\* the name holds exactly the winner's object; a create loses only to the
\* other's create or to a failure of the call itself, so with no such failure
\* exactly one wins; with no winner the name stays absent.
C4_CreateRaceHasOneWinner ==
    RaceOnAbsent =>
        /\ Cardinality(CreateWinners) <= 1
        /\ \A p \in CreateWinners :
              /\ ReturnedSuccess(p)
              /\ ReturnedError(Other(p))
              /\ CallsOf(Other(p), "create")[1].err.msg \in {"AlreadyExists"} \cup FaultReasons
              /\ store[NameOf(p)] = SetResourceVersion(toUnstructured(mc[p]), 1)
        /\ (\A p \in Invocations :
               CallsOf(p, "create")[1].err # Nil =>
                   CallsOf(p, "create")[1].err.msg = "AlreadyExists")
              => Cardinality(CreateWinners) = 1
        /\ CreateWinners = {} => store[NameOf("inv1")] = Absent

C4_Witness ==
    /\ RaceOnAbsent
    /\ CreateWinners = {"inv2"}
    /\ CallsOf("inv1", "create")[1].err.msg = "AlreadyExists"
    /\ toUnstructured(mc["inv1"]) # toUnstructured(mc["inv2"])
    /\ ReturnedError("inv1")

FirstWriteAt ==
    CHOOSE i \in 1..Len(events) :
        IsWrite(events[i]) /\ \A j \in 1..(i - 1) : ~IsWrite(events[j])

\* Both invocations target one existing name, both Gets returned the same
\* revision before either wrote, and both have returned.
RaceOnStaleToken ==
    /\ SameName
    /\ \A p \in Invocations : LookupFound(p) /\ Returned(p)
    /\ \A i \in 1..Len(events) : events[i].op = "get" => i < FirstWriteAt
    /\ CallsOf("inv1", "get")[1].obj = CallsOf("inv2", "get")[1].obj

\* The revision a successful write leaves on the object.
RevisionAfter(e) == IF e.op = "create" THEN 1 ELSE e.obj.metadata.resourceVersion + 1
SuccessfulWritesBefore(j) ==
    {i \in 1..(j - 1) : IsWrite(events[i]) /\ events[i].err = Nil
                          /\ events[i].name = events[j].name}

\* C5: two invocations for one existing name that both looked up the same
\* revision before either wrote: at most one update succeeds; the other's
\* update is rejected and returned to its caller as an error, and the name
\* holds the object of the successful update (the looked-up object when
\* neither succeeds).  No successful update carries a token older than the
\* latest successful write before it.
C5_StaleUpdateRejected ==
    /\ RaceOnStaleToken =>
          LET found == CallsOf("inv1", "get")[1].obj IN
          /\ Cardinality(UpdateWinners) <= 1
          /\ \A p \in UpdateWinners :
                LET lost == CallsOf(Other(p), "update")[1] IN
                /\ lost.err # Nil
                /\ lost.err.msg \in {"Conflict"} \cup FaultReasons
                /\ ReturnedError(Other(p))
                /\ result[Other(p)].args = <<lost.err>>
                /\ store[NameOf(p)] =
                      SetResourceVersion(toUnstructured(mc[p]),
                                         found.metadata.resourceVersion + 1)
          /\ UpdateWinners = {} => store[NameOf("inv1")] = found
    /\ \A j \in 1..Len(events) :
          (events[j].op = "update" /\ events[j].err = Nil
              /\ SuccessfulWritesBefore(j) # {}) =>
             LET i == CHOOSE k \in SuccessfulWritesBefore(j) :
                          \A l \in SuccessfulWritesBefore(j) : l <= k
             IN  events[j].obj.metadata.resourceVersion = RevisionAfter(events[i])

C5_Witness ==
    /\ RaceOnStaleToken
    /\ UpdateWinners = {"inv1"}
    /\ CallsOf("inv2", "update")[1].err.msg = "Conflict"
    /\ ReturnedError("inv2")
    /\ toUnstructured(mc["inv1"]) # toUnstructured(mc["inv2"])

\* C6: one invocation issues at most one Get and at most one write, the Get
\* first; once its write is answered it has returned, with success when the
\* write succeeded and with the write's error otherwise, so no remote call
\* follows a failed create or update.
C6_NoRetry ==
    \A p \in Invocations :
        /\ Count(p, "get") <= 1
        /\ Len(WritesOf(p)) <= 1
        /\ Len(EventsOf(p)) >= 1 => EventsOf(p)[1].op = "get"
        /\ Len(WritesOf(p)) = 1 =>
              /\ Returned(p)
              /\ EventsOf(p)[Len(EventsOf(p))] = WritesOf(p)[1]
              /\ WritesOf(p)[1].err = Nil => ReturnedSuccess(p)
              /\ WritesOf(p)[1].err # Nil =>
                    ReturnedError(p) /\ result[p].args = <<WritesOf(p)[1].err>>
        /\ (Returned(p) /\ Len(WritesOf(p)) = 0) =>
              ReturnedError(p) /\ Len(EventsOf(p)) = 0

C6_Witness ==
    \E p \in Invocations :
        /\ Returned(p)
        /\ Len(EventsOf(p)) = 2
        /\ WritesOf(p)[1].op = "update"
        /\ WritesOf(p)[1].err # Nil
        /\ WritesOf(p)[1].err.msg = "Conflict"
        /\ Returned(Other(p))

RemoteFiles(obj) == obj.spec.config.storage.files

\* The successful writes on a name that no later successful write follows.
LastSuccessfulWrites ==
    {j \in 1..Len(events) :
        /\ IsWrite(events[j]) /\ events[j].err = Nil
        /\ \A k \in (j + 1)..Len(events) :
              ~(IsWrite(events[k]) /\ events[k].err = Nil
                   /\ events[k].name = events[j].name)}

\* C17: after a successful update the remote object's file list is the new
\* resource's file list, entry by entry (path, mode, overwrite, encoded
\* source), with nothing of the previous list kept; no submitted file entry
\* has a field besides these four, so the decoded-content comment is never
\* sent.
C17_UpdateReplacesFileList ==
    /\ \A j \in LastSuccessfulWrites :
          events[j].op = "update" =>
             LET new == FilesOf(mc[events[j].who])
                 remote == RemoteFiles(store[events[j].name])
             IN  /\ Len(remote) = Len(new)
                 /\ \A i \in 1..Len(new) :
                       remote[i] = [path |-> new[i].Path,
                                    mode |-> new[i].Mode,
                                    overwrite |-> new[i].Overwrite,
                                    contents |-> [source |-> new[i].Contents.Source]]
    /\ \A j \in 1..Len(events) :
          IsWrite(events[j]) =>
             \A i \in 1..Len(RemoteFiles(events[j].obj)) :
                /\ DOMAIN RemoteFiles(events[j].obj)[i] =
                       {"path", "mode", "overwrite", "contents"}
                /\ DOMAIN RemoteFiles(events[j].obj)[i].contents = {"source"}

C17_Witness ==
    \E j \in LastSuccessfulWrites :
        /\ events[j].op = "update"
        /\ Len(RemoteFiles(OldObject(events[j].name))) = 2
        /\ Len(RemoteFiles(store[events[j].name])) = 1
        /\ FilesOf(mc[events[j].who])[1].Comment # ""
        /\ RemoteFiles(store[events[j].name])[1].path = "/etc/systemd/network/10-ptp1.link"

(***************************************************************************)
(* Properties of the command                                               *)
(***************************************************************************)
EventOps == {events[i].op : i \in 1..Len(events)}

\* The list call of this run succeeded and returned no member.
ListedNoMembers ==
    /\ \E i \in 1..Len(events) :
          events[i].who = "cli" /\ events[i].op = "list" /\ events[i].err = Nil
    /\ Len(nodes) = 0

\* C9: on an empty member list the classification fails with the
\* no-nodes-found error and decides no role; the run in apply mode ends
\* there, with that error, before a resource is built or shown, before the
\* prompt and before any Get, create or update.
C9_EmptyClusterStopsApply ==
    ListedNoMembers =>
        /\ flags.apply
        /\ topo.err = ErrNoNodes
        /\ cli.pc = "done"
        /\ cli.ret # Nil /\ cli.ret # NoResult
        /\ cli.ret.args = <<ErrNoNodes>>
        /\ cli.mc = Nil
        /\ cli.shown = Nil
        /\ EventOps \cap {"prompt", "get", "create", "update"} = {}
        /\ events[Len(events)].op = "list"
        /\ pc["inv1"] = "idle"
        /\ mc["inv1"] = Nil

C9_Witness ==
    /\ ListedNoMembers
    /\ cli.pc = "done"
    /\ cli.ret.args = <<ErrNoNodes>>
    /\ store["50-interface-rename"] # Absent

\* The messages with which parseAndValidateFlags reports a violation of the
\* input contract.
ContractViolations ==
    {"number of names (%d) must match number of MAC addresses (%d)",
     "--name-policy and --names are mutually exclusive",
     "either --name-policy or --names must be specified",
     "at least one matching method must be specified: --macs or --vendor/--model",
     "--vendor and --model must be specified together"}

RejectedInput ==
    /\ cli.pc = "done"
    /\ cli.ret # Nil /\ cli.ret # NoResult
    /\ cli.ret.msg \in ContractViolations

\* C14: a run that ends with a violation of the input contract (cardinality
\* mismatch, both or no naming option, missing or unpaired matching
\* criterion) has made no external call: no probe subprocess, no member
\* list, no Get, create or update.
C14_ContractCheckedBeforeExternalCalls ==
    RejectedInput => events = <<>>

\* The prompts of this run and the lines that count as consent.
Prompts ==
    LET is(e) == e.who = "cli" /\ e.op = "prompt" IN SelectSeq(events, is)
ConsentLines == {"yes\n", " Y \n"}
Consented(e) == e.err = Nil /\ e.name \in ConsentLines
ClusterCalls == {"get", "create", "update"}
UntouchedStores == {[n \in MCNames |-> Absent], [n \in MCNames |-> OldObject(n)]}

\* C15: in apply mode a Get, create or update is issued only after the one
\* prompt was answered yes or y (any case, white space around it ignored);
\* after any other answer or a failed read the run ends without error, with
\* no call to the cluster and the collection as it was.
C15_NoWriteWithoutConsent ==
    /\ Len(Prompts) <= 1
    /\ Len(Prompts) = 1 => flags.apply
    /\ EventOps \cap ClusterCalls # {} =>
          /\ Len(Prompts) = 1
          /\ Consented(Prompts[1])
    /\ (Len(Prompts) = 1 /\ ~Consented(Prompts[1])) =>
          /\ cli.pc = "done"
          /\ cli.ret = Nil
          /\ EventOps \cap ClusterCalls = {}
          /\ store \in UntouchedStores
          /\ pc["inv1"] = "idle"

C15_Witness ==
    /\ Len(Prompts) = 1
    /\ Prompts[1].name = " Y \n"
    /\ "update" \in EventOps
    /\ store \notin UntouchedStores
    /\ cli.pc = "done"
    /\ cli.ret = Nil

\* The place of each external step in one run of the command.
StepRank(op) ==
    CASE op = "probe" -> 1
      [] op = "list" -> 2
      [] op = "prompt" -> 3
      [] op = "get" -> 4
      [] op \in {"create", "update"} -> 5

OpsInOrder == [i \in 1..Len(events) |-> events[i].op]

\* C16: the external steps of one run come in the order probe, member list,
\* prompt, Get, create-or-update, each at most once and none without the
\* steps before it (the probe alone is optional); every step has its answer
\* before the next starts; the resource submitted is the one shown before
\* the prompt.
C16_StepsInStrictSequence ==
    /\ \A i, j \in 1..Len(events) :
          i < j => StepRank(events[i].op) < StepRank(events[j].op)
    /\ \A j \in 1..Len(events) :
          /\ events[j].who \in {"cli", "inv1"}
          /\ StepRank(events[j].op) >= 3 =>
                (j > 1 /\ StepRank(events[j - 1].op) = StepRank(events[j].op) - 1)
          /\ events[j].op \in {"list", "prompt", "get", "create", "update"} => flags.apply
          /\ events[j].op = "prompt" => (cli.shown # Nil /\ cli.shown = cli.mc)
          /\ events[j].op \in {"create", "update"} =>
                /\ mc["inv1"] = cli.shown
                /\ SetResourceVersion(events[j].obj, 0) = toUnstructured(cli.shown)
          /\ j < Len(events) => events[j].err # NoResult

C16_Witness ==
    /\ OpsInOrder = <<"probe", "list", "prompt", "get", "create">>
    /\ cli.pc = "done"
    /\ cli.ret = Nil
    /\ store[flags.mcName] = SetResourceVersion(toUnstructured(cli.shown), 1)

\* The value --mc-name has when it is not on the command line.
McNameWhenNotGiven == "50-interface-rename"

Generated == cli.mc # Nil
MatchedByProperty == cli.parsed # NoResult /\ cli.parsed.vendor # "" /\ cli.parsed.model # ""

\* C18: without --mc-name, a resource generated for vendor/model matching
\* is named 50-interface-<VENDOR>-<MODEL> after the IDs without their 0x
\* prefix, and a resource generated for MAC matching is named
\* 50-interface-rename.
C18_NameFromVendorModel ==
    (Generated /\ flags.mcName = McNameWhenNotGiven) =>
        cli.mc.Metadata.Name =
            IF MatchedByProperty
            THEN "50-interface-" \o Bare(cli.parsed.vendor) \o "-" \o Bare(cli.parsed.model)
            ELSE "50-interface-rename"

\* The NamePolicy= lines of a generated file.
PolicyDirectives(file) ==
    LET is(line) == HasPrefix(line, "NamePolicy=") IN SelectSeq(DecodedLines(file), is)

GeneratedWithPolicy == Generated /\ cli.parsed.policy # ""

\* C19: a naming policy given as a comma-separated list of schemes yields,
\* in every generated file, the one directive NamePolicy= followed by the
\* schemes in the given order separated by single spaces, without a comma.
C19_PolicyListSpaceSeparated ==
    GeneratedWithPolicy =>
        \A i \in 1..Len(FilesOf(cli.mc)) :
            LET directives == PolicyDirectives(FilesOf(cli.mc)[i])
            IN  /\ Len(directives) = 1
                /\ ~Contains(directives[1], ",")
                /\ directives[1] =
                      "NamePolicy=" \o ReplaceAll(TrimSpace(flags.namePolicy), ",", " ")

\* What the two naming flags of this run yield.
YieldsNames == flags.interfaceNames \notin {"", " , "}
YieldsPolicy == flags.namePolicy # ""
Parsed == cli.parsed # NoResult

GivenMacs == flags.macAddresses # ""
GivenVendor == flags.vendorID # ""
GivenModel == flags.modelID # ""
GivenRef == flags.refIfName # ""
GivenNode == flags.node # ""
SeveralNames == flags.interfaceNames = "ptp0,ptp1"

\* The run ended in flag validation and produced nothing.
RejectedByValidation ==
    /\ cli.parsed.err # Nil
    /\ cli.pc = "done"
    /\ cli.ret = cli.parsed.err
    /\ cli.mc = Nil /\ cli.shown = Nil /\ cli.out = Nil
    /\ EventOps \subseteq {"probe"}
    /\ pc["inv1"] = "idle"

\* C21: flag validation rejects a run with no matching method (no MAC, no
\* vendor/model, no reference interface), with exactly one of --vendor and
\* --model, with --refIfName next to --vendor or --model, with --node
\* without --refIfName, and with vendor/model matching (given or to be
\* detected) next to more than one interface name; no resource is generated.
C21_MatchingFlagsValidated ==
    Parsed =>
        /\ (~GivenMacs /\ ~GivenVendor /\ ~GivenModel /\ ~GivenRef) => RejectedByValidation
        /\ (GivenVendor # GivenModel) => RejectedByValidation
        /\ (GivenRef /\ (GivenVendor \/ GivenModel)) => RejectedByValidation
        /\ (GivenNode /\ ~GivenRef) => RejectedByValidation
        /\ (((GivenVendor /\ GivenModel) \/ GivenRef) /\ SeveralNames)
              => RejectedByValidation

C21_Witness ==
    /\ Parsed
    /\ GivenVendor /\ GivenModel /\ ~GivenRef /\ ~GivenNode
    /\ flags.macAddresses = "aa:bb:cc:dd:ee:ff, 11:22:33:44:55:66"
    /\ SeveralNames
    /\ flags.namePolicy = ""
    /\ RejectedByValidation
    /\ cli.ret.msg =
          "when using --vendor/--model matching, only one interface name can be specified"

\* The calls to the cluster's API: the member list of the classifier and the
\* lookup, create and update of the reconciler.
ApiCalls == {"list", "get", "create", "update"}

\* The probe run on a cluster member through oc debug node.
RemoteProbes ==
    LET is(e) == e.op = "probe" /\ e.name = "oc debug node" IN SelectSeq(events, is)

RoleOf(m) == m.Metadata.Labels[RoleLabelKey]

\* The role label follows the classifier's decision in apply mode and is
\* worker without --apply.
RoleAsDecided ==
    Generated =>
        /\ DOMAIN cli.mc.Metadata.Labels = {RoleLabelKey}
        /\ RoleOf(cli.mc) \in {"master", "worker"}
        /\ ~flags.apply => RoleOf(cli.mc) = "worker"
        /\ flags.apply =>
              /\ Classified
              /\ RoleOf(cli.mc) = "master" <=> topo.useMasterRole
              /\ RoleOf(cli.mc) = "worker" <=> ~topo.useMasterRole

\* C29 as stated: without --apply a run makes no call to the cluster at all
\* and the role label is worker; with --apply the role label is master
\* exactly when the classifier decided so and worker otherwise.
C29_NoClusterCallWithoutApply ==
    /\ ~flags.apply =>
          /\ EventOps \cap ApiCalls = {}
          /\ RemoteProbes = <<>>
    /\ RoleAsDecided

\* C29 as amended: without --apply a run makes no member list, lookup, create
\* or update, asks nothing and leaves the collection as it was, and the role
\* label is worker; its one possible contact with the cluster is the probe
\* through oc debug node, run once when --refIfName and --node are given
\* with a kubeconfig.  With --apply the role label is master exactly when
\* the classifier decided so and worker otherwise.
C29_NoApiCallWithoutApply ==
    /\ ~flags.apply =>
          /\ EventOps \cap ApiCalls = {}
          /\ Prompts = <<>>
          /\ store \in UntouchedStores
          /\ pc["inv1"] = "idle"
          /\ topo = NoResult
    /\ Len(RemoteProbes) <= 1
    /\ RemoteProbes # <<>> =>
          GivenRef /\ GivenNode /\ ~GivenVendor /\ ~GivenModel /\ flags.kubeconfig # ""
    /\ RoleAsDecided

C29_Witness ==
    /\ ~flags.apply
    /\ cli.pc = "done"
    /\ Generated
    /\ cli.out # Nil
    /\ RoleOf(cli.mc) = "worker"
    /\ Len(RemoteProbes) = 1
    /\ events = <<CliEvent("probe", "oc debug node", Nil)>>

\* The match predicates among the lines of a link file: the lines of its
\* [Match] section.
MatchLines(ls) ==
    LET blank == {i \in 1..Len(ls) : ls[i] = ""}
        stop == CHOOSE i \in blank : \A k \in blank : i <= k
    IN  SubSeq(ls, 2, stop - 1)

\* The file, of lines ls, names the MAC address, with or without its colons.
RefersTo(file, ls, mac) ==
    \/ \E k \in 1..Len(ls) : Contains(ls[k], mac)
    \/ Contains(file.Path, mac)
    \/ Contains(file.Path, ReplaceAll(mac, ":", ""))

MatchedByMacsToo == MatchedByProperty /\ cli.parsed.macs # <<>>
MatchedByMacsOnly == cli.parsed # NoResult /\ ~MatchedByProperty /\ cli.parsed.macs # <<>>

\* C30: a generated resource uses one kind of criterion.  When MACs and a
\* vendor/model pair both pass validation it has exactly one file, whose
\* match predicates are the two hardware-ID properties, and no file refers to
\* a given MAC; when only MACs are given, every file has the one predicate
\* MACAddress= of its MAC.
C30_OneCriterionKind ==
    Generated =>
        /\ MatchedByMacsToo =>
              /\ Len(FilesOf(cli.mc)) = 1
              /\ LET file == FilesOf(cli.mc)[1]
                     ls == DecodedLines(file)
                     match == MatchLines(ls)
                 IN  /\ ls[1] = "[Match]"
                     /\ Len(match) = 2
                     /\ HasPrefix(match[1], "Property=ID_VENDOR_ID=0x")
                     /\ HasPrefix(match[2], "Property=ID_MODEL_ID=0x")
                     /\ \A k \in 1..Len(ls) : ~HasPrefix(ls[k], "MACAddress")
                     /\ \A m \in 1..Len(cli.parsed.macs) :
                           ~RefersTo(file, ls, cli.parsed.macs[m])
        /\ MatchedByMacsOnly =>
              /\ Len(FilesOf(cli.mc)) = Len(cli.parsed.macs)
              /\ \A i \in 1..Len(FilesOf(cli.mc)) :
                    LET ls == DecodedLines(FilesOf(cli.mc)[i])
                    IN  /\ ls[1] = "[Match]"
                        /\ MatchLines(ls) = <<"MACAddress=" \o cli.parsed.macs[i]>>
                        /\ \A k \in 1..Len(ls) : ~HasPrefix(ls[k], "Property=")

C30_Witness ==
    /\ Generated
    /\ MatchedByMacsToo
    /\ flags.macAddresses = "aa:bb:cc:dd:ee:ff"
    /\ flags.vendorID = "8086"
    /\ flags.interfaceNames = "ptp0"
    /\ MatchLines(DecodedLines(FilesOf(cli.mc)[1])) =
          <<"Property=ID_VENDOR_ID=0x8086", "Property=ID_MODEL_ID=0x153a">>

====
